---- MODULE Spec2Model ----
(***************************************************************************)
(* Histogram conditioning subsystem of Refiners: the UNet-wide adapter     *)
(* SD1HistogramAdapter, its per-layer cross-attention sub-adapters, the    *)
(* shared conditioning context and the training-loop glue that drives them.*)
(*                                                                         *)
(* Tensors are abstracted to small integers (one scalar per tensor) and    *)
(* the histogram embedding to a single token, as the trainer reshapes it   *)
(* (trainers/histogram.py:202): with a single key/value token the softmax  *)
(* of the attention branch is 1 and the branch returns the value           *)
(* projection of the token.                                                *)
(***************************************************************************)
EXTENDS Integers, Sequences, FiniteSets, TLC

\* ---------------------------------------------------------------- bounds
\* number of layers of the UNet fixture that the adapter constructor visits
MaxLayers == 2
\* tensors, scales and embeddings take the values 0..MaxTensor
MaxTensor == 1
\* an image batch holds at most MaxSamples pixels in all
MaxSamples == 2

Layers == 1..MaxLayers
Tensors == 0..MaxTensor
Scales == 0..MaxTensor
Embeddings == 0..MaxTensor
\* the values torch's default initialisation can give a fresh Linear layer's
\* tensors: two constructions need not draw the same
FreshTensors == Tensors
None == "None"
\* channel values of a normalized image: the minimum 0.0 and the maximum 1.0
ChannelValues == {0, 1}

\* ------------------------------------------------------- class hierarchy
\* fl.Attention > fl.SelfAttention > fl.SelfAttention2d; Conv2d is no attention
LayerTypes == {"Attention", "SelfAttention", "SelfAttention2d", "Conv2d"}

IsAttention(t) == t \in {"Attention", "SelfAttention", "SelfAttention2d"}

IsSelfAttentionType(t) == t \in {"SelfAttention", "SelfAttention2d"}

\* ------------------------------------------------------------ context keys
\* the namespace and key SD1HistogramAdapter.set_histogram_embedding writes
WriterContext == "ip_adapter"
WriterKey == "clip_image_embedding"
\* the namespace and key the two UseContext layers of HistogramCrossAttention read
KeyBranchContext == "ip_adapter"
KeyBranchKey == "palette_embedding"
ValueBranchContext == "ip_adapter"
ValueBranchKey == "palette_embedding"


VARIABLES
    layerType,   \* [Layers -> LayerTypes]: the UNet's layers, in traversal order
    useBias,     \* the wrapped attentions' use_bias
    hasParent,   \* TRUE when the UNet sits in an outer Chain P
    built,       \* TRUE once SD1HistogramAdapter has been constructed
    sub_adapters,\* SD1HistogramAdapter.sub_adapters: a sequence of records
    params,      \* [tensor references -> value]: the base UNet's tensors and the
                 \* sub-adapters' projection tensors
    subAdapterScale,\* [adapted layers -> Scales]: the sub-adapters' scale factor
    adapters,    \* the HistogramCrossAttentionAdapter instances built, in order
    adapterScale,\* per instance: HistogramCrossAttentionAdapter._scale
    branchScale, \* per instance: HistogramCrossAttention._scale
    multiplyScale,\* per instance: fl.Multiply.scale of the branch
    graph,       \* the network graph: who sits where, and the parent pointers
    context,     \* [names set -> [keys set -> Embeddings]]: the shared context
    controlnets, \* the Controlnet of every SD1ControlnetAdapter built, in order
    children,    \* the children of the controlnet adapters' target, first to last
    last         \* the last operation: its name, arguments, outcome and call trace

vars == <<layerType, useBias, hasParent, built, sub_adapters, params,
          subAdapterScale, adapters, adapterScale, branchScale, multiplyScale,
          graph, context, controlnets, children, last>>

fixture == <<layerType, useBias, hasParent>>
scales == <<adapterScale, branchScale, multiplyScale>>
histogram_adapters == <<adapters, scales>>
controlnet == <<controlnets, children>>

\* a reference to one tensor: the weight of base layer i ("target"), or a
\* projection tensor of the sub-adapter of layer i
Ref(i, proj) == [layer |-> i, proj |-> proj]

\* the tensors of the base UNet; a structural copy shares them with its source
BaseRefs == {Ref(i, "target") : i \in Layers}

\* the graph of a freshly built UNet: every layer in its own slot, bound to its chain
InitialGraph(p) ==
    [slot |-> [i \in Layers |-> "target"],
     tparent |-> [i \in Layers |-> "chain"],
     aparent |-> [i \in Layers |-> None],
     root |-> IF p THEN "unet" ELSE None,
     uparent |-> IF p THEN "P" ELSE None,
     oparent |-> None]

\* the target of the controlnet adapters before any is injected: its own child
\* modules, none of them a Controlnet (0 stands for such a module, a >= 1 for the
\* Controlnet of the a-th adapter)
BaseChildren == <<0>>

\* the record kept of the last call: name, arguments, the graph it was called
\* on, the exception raised ("ok" for none), the primitive injections/ejections
\* it completed, in order, and its result
Op(name, args, pre, err, trace, out) ==
    [op |-> name, args |-> args, pre |-> pre, err |-> err, trace |-> trace, out |-> out]

Init ==
    /\ layerType \in [Layers -> LayerTypes]
    /\ useBias \in BOOLEAN
    /\ hasParent \in BOOLEAN
    /\ built = FALSE
    /\ sub_adapters = <<>>
    /\ params = [r \in BaseRefs |-> r.layer]
    /\ subAdapterScale = <<>>
    /\ adapters = <<>>
    /\ adapterScale = <<>> /\ branchScale = <<>> /\ multiplyScale = <<>>
    /\ graph = InitialGraph(hasParent)
    /\ context = <<>>
    /\ controlnets = <<>>
    /\ children = BaseChildren
    /\ last = Op("init", <<>>, InitialGraph(hasParent), "ok", <<>>, 0)

\* ----------------------------------------------------------- construction
\* target.layers(fl.Attention): the layers that are instances of fl.Attention,
\* in traversal order
AttentionLayers(types) ==
    SelectSeq([i \in Layers |-> i], LAMBDA i : IsAttention(types[i]))

\* the filter of SD1HistogramAdapter.__init__: type(attn) != fl.SelfAttention
IsTargeted(t) == t # "SelfAttention"

\* the sub-adapter built for layer i: CrossAttentionAdapter(target=cross_attn,
\* scale=scale), the class the module imports from latent_diffusion.image_prompt
NewSubAdapter(i) == [target |-> i, class |-> "CrossAttentionAdapter"]

\* SD1HistogramAdapter.__init__, the sub_adapters list
BuildSubAdapters(types) ==
    LET targets == SelectSeq(AttentionLayers(types), LAMBDA i : IsTargeted(types[i]))
    IN  [n \in 1..Len(targets) |-> NewSubAdapter(targets[n])]

Targets(subs) == {subs[n].target : n \in 1..Len(subs)}

\* CrossAttentionAdapter: the tensors of the two learned linear projections (key
\* and value) a sub-adapter adds to layer i; the projections carry the wrapped
\* layer's bias usage
SubAdapterTensors(i, bias) ==
    {Ref(i, "key"), Ref(i, "value")}
        \cup (IF bias THEN {Ref(i, "key_bias"), Ref(i, "value_bias")} ELSE {})

\* the tensors the sub-adapters of a network with these layers introduce
NewSubAdapterTensors(types, bias) ==
    UNION {SubAdapterTensors(i, bias) : i \in Targets(BuildSubAdapters(types))}

\* SD1HistogramAdapter.__init__: one sub-adapter per targeted layer, each with a
\* structural copy of its target (the target's tensors shared, none written),
\* its own projection tensors, each initialised by its own draw fresh[r], and
\* the scale given
Construct(scale, fresh) ==
    /\ ~built
    /\ built' = TRUE
    /\ sub_adapters' = BuildSubAdapters(layerType)
    /\ LET new == NewSubAdapterTensors(layerType, useBias) IN
        /\ params' = [r \in (DOMAIN params) \cup new |->
                         IF r \in new THEN fresh[r] ELSE params[r]]
        /\ subAdapterScale' = [i \in Targets(sub_adapters') |-> scale]
    /\ last' = Op("__init__", <<scale>>, graph, "ok", <<>>, 0)
    /\ UNCHANGED <<fixture, controlnet, histogram_adapters, graph, context>>

\* ------------------------------------------------- the base Adapter class
\* The outcome of a graph operation: the graph, the exception raised ("ok" for
\* none) and the primitive calls that completed, in order.
Outcome(g, err, trace) == [g |-> g, err |-> err, trace |-> trace]

\* a completed primitive call: inject or eject, of a sub-adapter (named by its
\* target layer) or of the orchestrator itself (layer 0)
SubCall(what, i) == [call |-> what, of |-> "sub_adapter", layer |-> i]

SelfCall(what) == [call |-> what, of |-> "self", layer |-> 0]

SubInjected(g, i) == g.slot[i] = "adapter"

OrchestratorInjected(g) == g.uparent = "orch"

\* mutant: no assertion that the adapter is not in the graph yet
SubAdapterInjectUnguarded(g, i) ==
    IF g.tparent[i] = None THEN Outcome(g, "ok", <<SubCall("inject", i)>>)
    ELSE Outcome([g EXCEPT !.slot[i] = "adapter", !.aparent[i] = "chain",
                           !.tparent[i] = None],
                 "ok", <<SubCall("inject", i)>>)

\* Adapter.inject of the sub-adapter of layer i: asserts that the adapter is not
\* already in the graph, then puts the adapter in its target's place in the
\* target's parent chain; the target leaves the chain
SubAdapterInject(g, i) ==
    IF SubInjected(g, i) THEN Outcome(g, "AssertionError", <<>>)
    ELSE IF g.tparent[i] = None THEN Outcome(g, "ok", <<SubCall("inject", i)>>)
    ELSE Outcome([g EXCEPT !.slot[i] = "adapter", !.aparent[i] = "chain",
                           !.tparent[i] = None],
                 "ok", <<SubCall("inject", i)>>)

\* Adapter.inject of the orchestrator with parent = None: the parent is the
\* UNet's parent; the orchestrator takes the UNet's place there and becomes the
\* UNet's parent (the UNet is the orchestrator's only child)
OrchestratorInject(g) ==
    IF OrchestratorInjected(g) THEN Outcome(g, "AssertionError", <<>>)
    ELSE IF g.uparent = "P"
         THEN Outcome([g EXCEPT !.root = "orch", !.oparent = "P", !.uparent = "orch"],
                      "ok", <<SelfCall("inject")>>)
         ELSE Outcome([g EXCEPT !.uparent = "orch"],
                      "ok", <<SelfCall("inject")>>)

\* Adapter.eject of the sub-adapter of layer i: the target goes back to the
\* adapter's place. Ejecting an adapter that is not injected is not guarded:
\* either it raises, or (ub = "silent") it unbinds the target from its parent.
SubAdapterEject(g, i, ub) ==
    IF SubInjected(g, i)
    THEN Outcome([g EXCEPT !.slot[i] = "target", !.tparent[i] = "chain",
                           !.aparent[i] = None],
                 "ok", <<SubCall("eject", i)>>)
    ELSE IF ub = "raise" THEN Outcome(g, "AssertionError", <<>>)
    ELSE Outcome([g EXCEPT !.tparent[i] = None], "ok", <<SubCall("eject", i)>>)

\* Adapter.eject of the orchestrator
OrchestratorEject(g, ub) ==
    IF OrchestratorInjected(g)
    THEN IF g.oparent = "P"
         THEN Outcome([g EXCEPT !.root = "unet", !.uparent = "P", !.oparent = None],
                      "ok", <<SelfCall("eject")>>)
         ELSE Outcome([g EXCEPT !.uparent = None],
                      "ok", <<SelfCall("eject")>>)
    ELSE IF ub = "raise" THEN Outcome(g, "AssertionError", <<>>)
    ELSE Outcome([g EXCEPT !.uparent = None], "ok", <<SelfCall("eject")>>)

\* ------------------------------------------------- SD1HistogramAdapter
\* `for adapter in self.sub_adapters: adapter.inject()`: in list order, stopping
\* at the first exception
RECURSIVE InjectSubAdapters(_, _, _)
InjectSubAdapters(g, subs, trace) ==
    IF subs = <<>> THEN Outcome(g, "ok", trace)
    ELSE LET r == SubAdapterInject(g, Head(subs).target) IN
         IF r.err # "ok" THEN Outcome(r.g, r.err, trace \o r.trace)
         ELSE InjectSubAdapters(r.g, Tail(subs), trace \o r.trace)

\* mutant: super().inject(parent) first, then the sub-adapters
InjectAllSelfFirst(g, subs) ==
    LET o == OrchestratorInject(g) IN
    IF o.err # "ok" THEN o ELSE InjectSubAdapters(o.g, subs, o.trace)

\* SD1HistogramAdapter.inject: the sub-adapters, then super().inject(parent)
InjectAll(g, subs) ==
    LET r == InjectSubAdapters(g, subs, <<>>) IN
    IF r.err # "ok" THEN r
    ELSE LET o == OrchestratorInject(r.g) IN Outcome(o.g, o.err, r.trace \o o.trace)

\* `for adapter in self.sub_adapters: adapter.eject()`
RECURSIVE EjectSubAdapters(_, _, _, _)
EjectSubAdapters(g, subs, ub, trace) ==
    IF subs = <<>> THEN Outcome(g, "ok", trace)
    ELSE LET r == SubAdapterEject(g, Head(subs).target, ub) IN
         IF r.err # "ok" THEN Outcome(r.g, r.err, trace \o r.trace)
         ELSE EjectSubAdapters(r.g, Tail(subs), ub, trace \o r.trace)

\* mutant: super().eject() first, then the sub-adapters
EjectAllSelfFirst(g, subs, ub) ==
    LET o == OrchestratorEject(g, ub) IN
    IF o.err # "ok" THEN o ELSE EjectSubAdapters(o.g, subs, ub, o.trace)

\* mutant: the sub-adapters are ejected, super().eject() is forgotten
EjectAllWithoutSelf(g, subs, ub) == EjectSubAdapters(g, subs, ub, <<>>)

\* SD1HistogramAdapter.eject: the sub-adapters, then super().eject()
EjectAll(g, subs, ub) ==
    LET r == EjectSubAdapters(g, subs, ub, <<>>) IN
    IF r.err # "ok" THEN r
    ELSE LET o == OrchestratorEject(r.g, ub) IN Outcome(o.g, o.err, r.trace \o o.trace)

Inject ==
    /\ built
    /\ LET r == InjectAll(graph, sub_adapters) IN
        /\ graph' = r.g
        /\ last' = Op("inject", <<>>, graph, r.err, r.trace, 0)
    /\ UNCHANGED <<fixture, controlnet, histogram_adapters, built, sub_adapters, params, subAdapterScale, context>>

Eject(ub) ==
    /\ built
    /\ LET r == EjectAll(graph, sub_adapters, ub) IN
        /\ graph' = r.g
        /\ last' = Op("eject", <<>>, graph, r.err, r.trace, 0)
    /\ UNCHANGED <<fixture, controlnet, histogram_adapters, built, sub_adapters, params, subAdapterScale, context>>

\* ------------------------------------------------------------- weights
\* CrossAttentionAdapter.weights: the two new projection weights the sub-adapter
\* exposes for loading and saving, the key projection's, then the value projection's
SubAdapterWeights(sub) == <<Ref(sub.target, "key"), Ref(sub.target, "value")>>

\* mutant: the sub-adapters taken last to first
RECURSIVE WeightsLastFirst(_)
WeightsLastFirst(subs) ==
    IF subs = <<>> THEN <<>>
    ELSE WeightsLastFirst(Tail(subs)) \o SubAdapterWeights(Head(subs))

\* SD1HistogramAdapter.weights: the sub-adapters' weights, concatenated in list order
RECURSIVE Weights(_)
Weights(subs) ==
    IF subs = <<>> THEN <<>> ELSE SubAdapterWeights(Head(subs)) \o Weights(Tail(subs))

\* a read of the property SD1HistogramAdapter.weights: the list it returns
weights ==
    /\ built
    /\ last' = Op("weights", <<>>, graph, "ok", <<>>, Weights(sub_adapters))
    /\ UNCHANGED <<fixture, controlnet, histogram_adapters, built, sub_adapters, params,
                   subAdapterScale, graph, context>>

RefSet(refs) == {refs[n] : n \in 1..Len(refs)}

\* mutant: every tensor of the network is zeroed, the base UNet's included
ZeroAllParameters(p, refs) == [r \in DOMAIN p |-> 0]

\* init.zeros_(weight) for every weight of the list
ZeroAll(p, refs) == [r \in DOMAIN p |-> IF r \in RefSet(refs) THEN 0 ELSE p[r]]

\* SD1HistogramAdapter.zero_init
zero_init ==
    /\ built
    /\ params' = ZeroAll(params, Weights(sub_adapters))
    /\ last' = Op("zero_init", <<>>, graph, "ok", <<>>, 0)
    /\ UNCHANGED <<fixture, controlnet, histogram_adapters, built, sub_adapters,
                   subAdapterScale, graph, context>>

\* CrossAttentionAdapter.load_weights: the two projection weights the sub-adapter
\* exposes are replaced by the given tensors
SubAdapterLoadWeights(p, sub, key_tensor, value_tensor) ==
    [p EXCEPT ![Ref(sub.target, "key")] = key_tensor,
              ![Ref(sub.target, "value")] = value_tensor]

sub_adapter_load_weights(n, key_tensor, value_tensor) ==
    /\ built
    /\ n \in 1..Len(sub_adapters)
    /\ params' = SubAdapterLoadWeights(params, sub_adapters[n], key_tensor, value_tensor)
    /\ last' = Op("load_weights", <<n, key_tensor, value_tensor>>, graph, "ok", <<>>, 0)
    /\ UNCHANGED <<fixture, controlnet, histogram_adapters, built, sub_adapters,
                   subAdapterScale, graph, context>>

\* the tensors a checkpoint holds: the values of adapter.weights, in list order
ExportWeights(p, subs) == [n \in 1..Len(Weights(subs)) |-> p[Weights(subs)[n]]]

\* a freshly constructed adapter of the same configuration on the same base
\* network: the same sub-adapters, every projection tensor initialised anew by
\* its own draw fresh[r]
FreshAdapter(p, fresh) == [r \in DOMAIN p |-> IF r \in BaseRefs THEN p[r] ELSE fresh[r]]

\* the import: the exported tensors are taken two by two, in export order, and
\* given to load_weights of the sub-adapters in list order
RECURSIVE ImportWeights(_, _, _)
ImportWeights(p, subs, exported) ==
    IF subs = <<>> \/ Len(exported) < 2 THEN p
    ELSE ImportWeights(SubAdapterLoadWeights(p, Head(subs), exported[1], exported[2]),
                       Tail(subs), SubSeq(exported, 3, Len(exported)))

\* export from the adapter, import into a fresh one, which takes its place; the
\* exporting adapter's tensors are kept as the call's result
import_weights(fresh) ==
    /\ built
    /\ params' = ImportWeights(FreshAdapter(params, fresh), sub_adapters,
                               ExportWeights(params, sub_adapters))
    /\ last' = Op("import_weights", <<>>, graph, "ok", <<>>, params)
    /\ UNCHANGED <<fixture, controlnet, histogram_adapters, built, sub_adapters,
                   subAdapterScale, graph, context>>

\* --------------------------------------------------------------- scale
\* CrossAttentionAdapter.scale setter, on the n-th sub-adapter: its scale factor
sub_adapter_scale(n, value) ==
    /\ built
    /\ n \in 1..Len(sub_adapters)
    /\ subAdapterScale' = [subAdapterScale EXCEPT ![sub_adapters[n].target] = value]
    /\ last' = Op("scale", <<n, value>>, graph, "ok", <<>>, 0)
    /\ UNCHANGED <<fixture, controlnet, histogram_adapters, built, sub_adapters, params,
                   graph, context>>

\* mutant: the loop stops before the last sub-adapter
set_scale_skipping_last(scale) ==
    /\ built
    /\ LET reached == {sub_adapters[n].target : n \in 1..(Len(sub_adapters) - 1)} IN
        subAdapterScale' = [i \in DOMAIN subAdapterScale |->
                               IF i \in reached THEN scale ELSE subAdapterScale[i]]
    /\ last' = Op("set_scale", <<scale>>, graph, "ok", <<>>, 0)
    /\ UNCHANGED <<fixture, controlnet, histogram_adapters, built, sub_adapters, params,
                   graph, context>>

\* SD1HistogramAdapter.set_scale: the scale assigned on every sub-adapter
set_scale(scale) ==
    /\ built
    /\ subAdapterScale' = [i \in DOMAIN subAdapterScale |->
                              IF i \in Targets(sub_adapters) THEN scale ELSE subAdapterScale[i]]
    /\ last' = Op("set_scale", <<scale>>, graph, "ok", <<>>, 0)
    /\ UNCHANGED <<fixture, controlnet, histogram_adapters, built, sub_adapters, params,
                   graph, context>>

\* ------------------------------------------------------------- context
\* Chain.set_context(name, value): the namespace's dictionary is replaced
SetContextTo(ctx, name, value) ==
    [n \in (DOMAIN ctx) \cup {name} |-> IF n = name THEN value ELSE ctx[n]]

\* the write of SD1HistogramAdapter.set_histogram_embedding
WriteEmbedding(ctx, histogram_embedding) ==
    SetContextTo(ctx, WriterContext, [k \in {WriterKey} |-> histogram_embedding])

set_histogram_embedding(histogram_embedding) ==
    /\ built
    /\ context' = WriteEmbedding(context, histogram_embedding)
    /\ last' = Op("set_histogram_embedding", <<histogram_embedding>>, graph, "ok", <<>>, 0)
    /\ UNCHANGED <<fixture, controlnet, histogram_adapters, built, sub_adapters, params, subAdapterScale, graph>>

\* ------------------------------------------------------- forward pass
Result(err, value) == [err |-> err, value |-> value]

\* fl.UseContext(context=name, key=key): the entry, which must be set
UseContext(ctx, name, key) ==
    IF name \in DOMAIN ctx /\ key \in DOMAIN ctx[name]
    THEN Result("ok", ctx[name][key])
    ELSE Result("AssertionError", 0)

\* fl.Linear: weight * x + bias (bias 0 for a layer without one)
Linear(weight, bias, x) == weight * x + bias

\* the sub-adapter's projection proj of layer i, applied to x
SubAdapterProjection(p, i, proj, x) ==
    Linear(p[Ref(i, proj)],
           IF Ref(i, proj \o "_bias") \in DOMAIN p THEN p[Ref(i, proj \o "_bias")] ELSE 0,
           x)

\* the parallel branch of the sub-adapter of layer i: its key and value
\* projections read the embedding the orchestrator wrote into the shared
\* context, attend with the original query, and the result is multiplied by the
\* scale factor. With a single key/value token the attention weights are 1 and
\* the attention returns the value projection.
SubAdapterBranch(i, p, scale, ctx) ==
    LET e == UseContext(ctx, WriterContext, WriterKey) IN
    IF e.err # "ok" THEN e
    ELSE Result("ok", scale[i] * SubAdapterProjection(p, i, "value", e.value))

\* the layer in slot i: the target itself, or the sub-adapter's structural copy,
\* whose attention is the sum of the original attention and the parallel branch
LayerForward(i, h, g, p, scale, ctx) ==
    IF g.slot[i] = "target" THEN Result("ok", p[Ref(i, "target")] * h)
    ELSE LET b == SubAdapterBranch(i, p, scale, ctx) IN
         IF b.err # "ok" THEN b
         ELSE Result("ok", p[Ref(i, "target")] * (h + b.value))

\* the UNet's forward pass: its layers in order, from layer i on
RECURSIVE ForwardFrom(_, _, _, _, _, _)
ForwardFrom(i, h, g, p, scale, ctx) ==
    IF i > MaxLayers THEN Result("ok", h)
    ELSE LET r == LayerForward(i, h, g, p, scale, ctx) IN
         IF r.err # "ok" THEN r
         ELSE ForwardFrom(i + 1, r.value, g, p, scale, ctx)

UnetForward(x, g, p, scale, ctx) == ForwardFrom(1, x, g, p, scale, ctx)

\* the output of the network before any injection
OriginalForward(x, p) == UnetForward(x, InitialGraph(hasParent), p, <<>>, <<>>)

\* ------------------------------------ HistogramCrossAttentionAdapter
\* at most MaxAdapters instances are built by hand
MaxAdapters == 2

DTypes == {"float32", "float16"}

\* a tensor given to or returned by an adapter: its value and its dtype (the
\* device a tensor is on has no part in its value and is left out)
Tensor(value, dtype) == [value |-> value, dtype |-> dtype]

\* Tensor values are counted in units of half the spacing of the float16 values:
\* float32 holds every value of the model, float16 the even ones
Representable(value, dtype) == dtype = "float32" \/ value % 2 = 0

\* the conversion of a value to a dtype: the nearest value the dtype holds, a
\* tie going to the one whose last bit is 0
Round(value, dtype) ==
    IF Representable(value, dtype) THEN value
    ELSE IF (value \div 2) % 2 = 0 THEN value - 1 ELSE value + 1

\* Module.to(device, dtype), on one tensor: converted to the dtype
To(t, dtype) == Tensor(Round(t.value, dtype), dtype)

\* the values a tensor of the dtype can hold
TensorsOf(dtype) == {v \in Tensors : Representable(v, dtype)}

\* the tensors a caller can pass to load_weights
GivenTensors == UNION {{Tensor(v, d) : v \in TensorsOf(d)} : d \in DTypes}

\* HistogramCrossAttention.__init__: the parameters of the two fl.Linear of the
\* key chain and of the value chain, biases iff the wrapped attention uses bias
NewTensors(bias) ==
    {"key", "value"} \cup (IF bias THEN {"key_bias", "value_bias"} ELSE {})

\* HistogramCrossAttentionAdapter(target, scale) on the attention layer `target`,
\* whose tensors are of `dtype`: a structural copy of the target, the branch's
\* two Linear layers created in the target's dtype, each parameter initialised
\* by its own draw fresh[name], and the scale stored in the adapter, handed to
\* the branch and from there to its Multiply layer
HistogramCrossAttentionAdapter(target, scale, dtype, fresh) ==
    /\ Len(adapters) < MaxAdapters
    /\ IsAttention(layerType[target])
    /\ \A n \in 1..Len(adapters) : adapters[n].target = target => adapters[n].dtype = dtype
    /\ adapters' = Append(adapters, [target |-> target, dtype |-> dtype, tensors |-> fresh])
    /\ adapterScale' = Append(adapterScale, scale)
    /\ branchScale' = Append(branchScale, scale)
    /\ multiplyScale' = Append(multiplyScale, scale)
    /\ last' = Op("HistogramCrossAttentionAdapter", <<target, scale>>, graph, "ok", <<>>, 0)
    /\ UNCHANGED <<fixture, controlnet, built, sub_adapters, params, subAdapterScale,
                   graph, context>>

\* the Linear of the branch's key chain (Distribute[1]) and of its value chain
\* (Distribute[2]), named by their weight
image_key_projection == "key"

image_value_projection == "value"

\* HistogramCrossAttentionAdapter.weights: key projection weight, value projection weight
AdapterWeights(a) ==
    <<Tensor(a.tensors[image_key_projection], a.dtype),
      Tensor(a.tensors[image_value_projection], a.dtype)>>

\* a read of the property weights of the n-th adapter
adapter_weights(n) ==
    /\ n \in 1..Len(adapters)
    /\ last' = Op("adapter.weights", <<n>>, graph, "ok", <<>>, AdapterWeights(adapters[n]))
    /\ UNCHANGED <<fixture, controlnet, histogram_adapters, built, sub_adapters, params,
                   subAdapterScale, graph, context>>

\* HistogramCrossAttentionAdapter.load_weights: the two projections' weights
\* become new parameters holding the given tensors, then the branch (and only
\* the branch) is moved to the adapter's device and converted to its dtype,
\* every parameter of it
LoadWeights(a, key_tensor, value_tensor) ==
    LET assigned == [name \in DOMAIN a.tensors |->
                        IF name = image_key_projection THEN key_tensor
                        ELSE IF name = image_value_projection THEN value_tensor
                        ELSE Tensor(a.tensors[name], a.dtype)]
    IN  [a EXCEPT !.tensors =
            [name \in DOMAIN a.tensors |-> To(assigned[name], a.dtype).value]]

load_weights(n, key_tensor, value_tensor) ==
    /\ n \in 1..Len(adapters)
    /\ adapters' = [adapters EXCEPT ![n] = LoadWeights(adapters[n], key_tensor, value_tensor)]
    /\ last' = Op("adapter.load_weights", <<n, key_tensor, value_tensor>>, graph, "ok", <<>>, 0)
    /\ UNCHANGED <<fixture, controlnet, scales, built, sub_adapters, params,
                   subAdapterScale, graph, context>>

\* mutant: the value stops at the adapter and the branch, the Multiply layer keeps its own
SetScaleOfWithoutMultiply(n, value) ==
    /\ adapterScale' = [adapterScale EXCEPT ![n] = value]
    /\ branchScale' = [branchScale EXCEPT ![n] = value]
    /\ UNCHANGED multiplyScale

\* HistogramCrossAttention.scale setter of the n-th adapter's branch: the
\* branch's _scale and its Multiply layer's scale
SetBranchScaleOf(n, value) ==
    /\ branchScale' = [branchScale EXCEPT ![n] = value]
    /\ multiplyScale' = [multiplyScale EXCEPT ![n] = value]

\* HistogramCrossAttentionAdapter.scale setter of the n-th adapter: the
\* adapter's _scale, then the branch's setter
SetScaleOf(n, value) ==
    /\ adapterScale' = [adapterScale EXCEPT ![n] = value]
    /\ SetBranchScaleOf(n, value)

\* adapter.scale = value
adapter_scale(n, value) ==
    /\ n \in 1..Len(adapters)
    /\ SetScaleOf(n, value)
    /\ last' = Op("adapter.scale", <<n, value>>, graph, "ok", <<>>, 0)
    /\ UNCHANGED <<fixture, controlnet, adapters, built, sub_adapters, params,
                   subAdapterScale, graph, context>>

\* adapter.histogram_cross_attention.scale = value
histogram_cross_attention_scale(n, value) ==
    /\ n \in 1..Len(adapters)
    /\ SetBranchScaleOf(n, value)
    /\ last' = Op("histogram_cross_attention.scale", <<n, value>>, graph, "ok", <<>>, 0)
    /\ UNCHANGED <<fixture, controlnet, adapters, adapterScale, built, sub_adapters, params,
                   subAdapterScale, graph, context>>

\* the lookups of the key chain and of the value chain of HistogramCrossAttention
KeyBranchLookup(ctx) == UseContext(ctx, KeyBranchContext, KeyBranchKey)

ValueBranchLookup(ctx) == UseContext(ctx, ValueBranchContext, ValueBranchKey)

\* HistogramCrossAttention of the n-th adapter: Distribute(query, key chain,
\* value chain), ScaledDotProductAttention, Multiply(scale). With a single
\* key/value token the attention weights are 1 and the attention returns the
\* value projection.
HistogramCrossAttentionForward(n, as, mscale, ctx) ==
    LET k == KeyBranchLookup(ctx)
        v == ValueBranchLookup(ctx)
        t == as[n].tensors
    IN  IF k.err # "ok" THEN k
        ELSE IF v.err # "ok" THEN v
        ELSE Result("ok", mscale[n] * Linear(t[image_value_projection],
                                             IF "value_bias" \in DOMAIN t THEN t["value_bias"] ELSE 0,
                                             v.value))

\* a network of cross-attention layers, outside any chain, for the adapters
\* built by hand
AttentionFixture ==
    /\ Init
    /\ layerType = [i \in Layers |-> "Attention"]
    /\ ~hasParent

\* the adapters built by hand: built, their scales and weights assigned, read
AdapterNext ==
    \/ \E target \in Layers, scale \in Scales, dtype \in DTypes :
          \E fresh \in [NewTensors(useBias) -> TensorsOf(dtype)] :
              HistogramCrossAttentionAdapter(target, scale, dtype, fresh)
    \/ \E n \in 1..MaxAdapters, value \in Scales : adapter_scale(n, value)
    \/ \E n \in 1..MaxAdapters, value \in Scales : histogram_cross_attention_scale(n, value)
    \/ \E n \in 1..MaxAdapters, k, v \in GivenTensors : load_weights(n, k, v)
    \/ \E n \in 1..MaxAdapters : adapter_weights(n)

AdapterSpec == AttentionFixture /\ [][AdapterNext]_vars

\* the shared context and its readers: the orchestrator and the adapters built
\* (every parameter drawn as 0: the lookups read no tensor), and the embedding
\* written any number of times
ContextNext ==
    \/ \E s \in Scales, fresh \in [NewSubAdapterTensors(layerType, useBias) -> {0}] :
          Construct(s, fresh)
    \/ \E target \in Layers, scale \in Scales, dtype \in DTypes :
          \E fresh \in [NewTensors(useBias) -> {0}] :
              HistogramCrossAttentionAdapter(target, scale, dtype, fresh)
    \/ \E e \in Embeddings : set_histogram_embedding(e)

ContextSpec == AttentionFixture /\ [][ContextNext]_vars

\* ------------------------------------------------------------- trainer
TrainerCall(what) == [call |-> what, of |-> "trainer", layer |-> 0]

\* the parameters of SD1HistogramAdapter.__init__ without and with a default
InitRequired == {"target", "histogram_encoder"}

InitOptional == {"scale", "device", "dtype"}

\* the keyword arguments HistogramLatentDiffusionTrainer.histogram_adapter passes
HistogramAdapterKwargs == {"target", "embedding_dim"}

\* a call binds when every keyword is a parameter and no required one is missing
Binds(kwargs) == kwargs \subseteq (InitRequired \cup InitOptional) /\ InitRequired \subseteq kwargs

\* the cached property trainer.histogram_adapter
histogram_adapter == IF Binds(HistogramAdapterKwargs) THEN "ok" ELSE "TypeError"

\* the classes and names adapters/histogram.py defines
HistogramModuleNames ==
    {"HistogramDistance", "HistogramExtractor", "Patch3dEncoder", "ViT3dEmbeddings",
     "HistogramEncoder", "HistogramCrossAttention", "HistogramCrossAttentionAdapter",
     "TSDNet", "SD1HistogramAdapter"}

\* from refiners.fluxion.adapters.histogram import <names>
ImportFrom(names) == IF names \subseteq HistogramModuleNames THEN "ok" ELSE "ImportError"

\* image batches of 1..MaxSamples images whose channel values are all `value`
ConstantImages == [batch : 1..MaxSamples, value : ChannelValues]

\* ColorLoss()(x, y), the name the trainer and the tests import from
\* adapters/histogram.py: no value is produced unless the name resolves
ColorLoss(x, y) == Result(ImportFrom({"ColorLoss"}), 0)

\* the trainer's cached property color_loss, called on two image batches
color_loss(x, y) ==
    /\ LET r == ColorLoss(x, y) IN
       last' = Op("color_loss", <<x, y>>, graph, r.err, <<>>, r.value)
    /\ UNCHANGED <<fixture, controlnet, histogram_adapters, built, sub_adapters, params, subAdapterScale, graph, context>>

\* the values of config.training.color_loss_weight
ColorLossWeights == {0, 1}

\* loss_1 + loss_2 * self.config.training.color_loss_weight
CompositeLoss(loss_1, loss_2, color_loss_weight) == loss_1 + loss_2 * color_loss_weight

\* what HistogramExtractor defines
HistogramExtractorMethods == {"__init__", "histogramdd"}

\* self.histogram_extractor.images_to_histograms(...)
images_to_histograms ==
    IF "images_to_histograms" \in HistogramExtractorMethods THEN "ok" ELSE "AttributeError"

\* HistogramLatentDiffusionTrainer.compute_loss on a batch whose histogram
\* embedding is e, whose noisy latents are x with the sampled noise, under the
\* color loss weight w: the statements in order, until one raises
compute_loss(e, x, noise, w) ==
    /\ LET encoded == <<TrainerCall("text_encoder"), TrainerCall("lda.images_to_latents"),
                        TrainerCall("images_to_tensor")>>
           embedded == encoded \o <<TrainerCall("images_to_histograms"),
                                    TrainerCall("histogram_auto_encoder.encode")>>
           upto == embedded \o <<TrainerCall("set_histogram_embedding"), TrainerCall("unet")>>
           decoded == upto \o <<TrainerCall("mse_loss"), TrainerCall("remove_noise"),
                                TrainerCall("decode")>>
       IN
       IF images_to_histograms # "ok"
       THEN /\ last' = Op("compute_loss", <<e, x, noise, w>>, graph, images_to_histograms,
                          encoded, 0)
            /\ UNCHANGED context
       ELSE IF histogram_adapter # "ok"
       THEN /\ last' = Op("compute_loss", <<e, x, noise, w>>, graph, histogram_adapter,
                          embedded, 0)
            /\ UNCHANGED context
       ELSE /\ context' = WriteEmbedding(context, e)
            /\ LET f == UnetForward(x, graph, params, subAdapterScale, context')
                   loss_1 == (f.value - noise) * (f.value - noise)
                   loss_2 == ColorLoss(f.value, x)
               IN  IF f.err # "ok"
                   THEN last' = Op("compute_loss", <<e, x, noise, w>>, graph, f.err, upto, f.value)
                   ELSE IF loss_2.err # "ok"
                   THEN last' = Op("compute_loss", <<e, x, noise, w>>, graph, loss_2.err,
                                   decoded, 0)
                   ELSE last' = Op("compute_loss", <<e, x, noise, w>>, graph, "ok",
                                   decoded \o <<TrainerCall("color_loss")>>,
                                   [loss_1 |-> loss_1, loss_2 |-> loss_2.value,
                                    loss |-> CompositeLoss(loss_1, loss_2.value, w)])
    /\ UNCHANGED <<fixture, controlnet, histogram_adapters, built, sub_adapters, params,
                   subAdapterScale, graph>>

\* LoadHistogram.on_train_begin: the trainer's adapter, zero_init(), inject()
on_train_begin ==
    /\ IF histogram_adapter # "ok"
       THEN /\ last' = Op("on_train_begin", <<>>, graph, histogram_adapter, <<>>, 0)
            /\ UNCHANGED <<params, graph>>
       ELSE /\ params' = ZeroAll(params, Weights(sub_adapters))
            /\ LET r == InjectAll(graph, sub_adapters) IN
                /\ graph' = r.g
                /\ last' = Op("on_train_begin", <<>>, graph, r.err,
                              <<TrainerCall("zero_init")>> \o r.trace, 0)
    /\ UNCHANGED <<fixture, controlnet, histogram_adapters, built, sub_adapters, subAdapterScale, context>>

\* what BatchHistogramPrompt defines
BatchHistogramPromptMethods == {"__init__", "to_dict", "collate_fn"}

\* batch["histogram_embeddings"]
Subscript == IF "__getitem__" \in BatchHistogramPromptMethods THEN "ok" ELSE "TypeError"

\* HistogramLatentDiffusionTrainer.compute_batch_evaluation on a batch whose
\* histogram embedding is e, from the latents x
compute_batch_evaluation(e, x) ==
    /\ IF Subscript # "ok"
       THEN /\ last' = Op("compute_batch_evaluation", <<e, x>>, graph, Subscript, <<>>, 0)
            /\ UNCHANGED context
       ELSE IF histogram_adapter # "ok"
       THEN /\ last' = Op("compute_batch_evaluation", <<e, x>>, graph, histogram_adapter, <<>>, 0)
            /\ UNCHANGED context
       ELSE /\ context' = WriteEmbedding(context, e)
            /\ last' = Op("compute_batch_evaluation", <<e, x>>, graph, "NameError",
                          <<TrainerCall("set_histogram_embedding")>>, 0)
    /\ UNCHANGED <<fixture, controlnet, histogram_adapters, built, sub_adapters, params, subAdapterScale, graph>>

\* construction, injection and ejection: the operations that touch the graph
\* every initialisation torch's default can give the sub-adapters' tensors, each
\* tensor drawn by itself
Initialisations == [NewSubAdapterTensors(layerType, useBias) -> FreshTensors]

\* one of them: inject, eject and the scale setters read and write no tensor
OneInitialisation == [NewSubAdapterTensors(layerType, useBias) -> {1}]

GraphNext ==
    \/ \E s \in Scales, fresh \in OneInitialisation : Construct(s, fresh)
    \/ Inject
    \/ \E ub \in {"raise", "silent"} : Eject(ub)

\* the adapter's lifecycle alone: built, injected and ejected in any order
GraphSpec == Init /\ [][GraphNext]_vars

\* the operations on weights, scales and the conditioning context
TensorNext ==
    \/ zero_init
    \/ \E n \in Layers, k, v \in Tensors : sub_adapter_load_weights(n, k, v)
    \/ \E v \in Scales : set_scale(v)
    \/ \E e \in Embeddings : set_histogram_embedding(e)

Next ==
    \/ \E s \in Scales, fresh \in Initialisations : Construct(s, fresh)
    \/ Inject
    \/ \E ub \in {"raise", "silent"} : Eject(ub)
    \/ TensorNext

\* the adapter's own operations, called in any order
Spec == Init /\ [][Next]_vars

\* ------------------------------------------------------ checkpoint save
\* the decimal digits of a natural number, most significant first
RECURSIVE Digits(_)
Digits(n) == IF n < 10 THEN <<n>> ELSE Digits(n \div 10) \o <<n % 10>>

\* the minimum width of the format specification 03d
KeyWidth == 3

\* mutant: the index is not padded
Format03dUnpadded(i) == Digits(i)

\* f"{i:03d}": the digits of i, zero-padded on the left to KeyWidth
Format03d(i) ==
    LET ds == Digits(i) IN
    IF Len(ds) >= KeyWidth THEN ds ELSE [k \in 1..(KeyWidth - Len(ds)) |-> 0] \o ds

\* f"unet.{i:03d}"
CheckpointKey(i) == [prefix |-> "unet.", index |-> Format03d(i)]

\* {f"unet.{i:03d}": w for i, w in enumerate(adapter.weights)}: a dictionary, in
\* which a key that comes again replaces the earlier entry
SavedTensors(p, subs) ==
    LET w == ExportWeights(p, subs)
        indices == 0..(Len(w) - 1)
    IN  [k \in {CheckpointKey(i) : i \in indices} |->
            LET i == CHOOSE i \in indices :
                        /\ CheckpointKey(i) = k
                        /\ \A j \in indices : CheckpointKey(j) = k => j <= i
            IN  w[i + 1]]

\* SaveHistogram.on_checkpoint_save: the UNet's parent is taken for the adapter;
\* the result is the dictionary handed to save_to_safetensors
on_checkpoint_save ==
    /\ IF graph.uparent = None
       THEN last' = Op("on_checkpoint_save", <<>>, graph, "ValueError", <<>>, <<>>)
       ELSE IF ~OrchestratorInjected(graph)
       THEN last' = Op("on_checkpoint_save", <<>>, graph, "AttributeError", <<>>, <<>>)
       ELSE last' = Op("on_checkpoint_save", <<>>, graph, "ok", <<>>,
                       SavedTensors(params, sub_adapters))
    /\ UNCHANGED <<fixture, controlnet, histogram_adapters, built, sub_adapters, params, subAdapterScale, graph, context>>

\* the adapter's lifecycle with the first sub-adapter's weights loaded and
\* checkpoints saved along the way
CheckpointNext ==
    \/ GraphNext
    \/ \E k, v \in Tensors : sub_adapter_load_weights(1, k, v)
    \/ on_checkpoint_save

CheckpointSpec == Init /\ [][CheckpointNext]_vars

\* --------------------------------------------------- HistogramExtractor
\* color_bits takes the values 0..MaxColorBits
MaxColorBits == 2

ColorBits == 0..MaxColorBits

RECURSIVE Pow2(_)
Pow2(n) == IF n = 0 THEN 1 ELSE 2 * Pow2(n - 1)

\* image batches of shape (batch, 3, 1, width), channels first
BatchShapes == {sh \in (1..MaxSamples) \X (1..MaxSamples) : sh[1] * sh[2] <= MaxSamples}

ImageBatches ==
    UNION {[1..sh[1] -> [1..3 -> [1..sh[2] -> ChannelValues]]] : sh \in BatchShapes}

\* fl.Permute(0, 2, 3, 1) on one image: a row of pixels, channels last
Permute(image) ==
    [k \in DOMAIN image[1] |-> [c \in 1..3 |-> image[c][k]]]

\* mutant: the last bin is open on the right, like the others
BinOfRightOpen(v, bins, lo, hi) ==
    IF v < lo \/ v >= hi THEN -1 ELSE ((v - lo) * bins) \div (hi - lo)

\* the bin torch.histogramdd counts a coordinate in: `bins` equal bins over
\* [lo, hi], the last one closed on the right; -1 when the sample is left out
BinOf(v, bins, lo, hi) ==
    IF v < lo \/ v > hi THEN -1
    ELSE IF v = hi THEN bins - 1
    ELSE ((v - lo) * bins) \div (hi - lo)

\* the result of a division, kept exact
Fraction(n, d) == [num |-> n, den |-> d]

\* torch.histogramdd(x[i], bins=2**color_bits, range=[0, 2**color_bits] * 3).hist
\* divided by num_pixels
ImageHistogram(pixels, color_bits) ==
    LET bins == Pow2(color_bits)
        num_pixels == Len(pixels)
        binned == [k \in 1..Len(pixels) |->
                      [c \in 1..3 |-> BinOf(pixels[k][c], bins, 0, Pow2(color_bits))]]
    IN  [bin \in [1..3 -> 0..(bins - 1)] |->
            Fraction(Cardinality({k \in 1..Len(pixels) : binned[k] = bin}), num_pixels)]

\* HistogramExtractor.histogramdd on the permuted batch: one histogram per batch
\* element, stacked
histogramdd(x, color_bits) ==
    LET histograms == [i \in 1..Len(x) |-> ImageHistogram(x[i], color_bits)]
    IN  [shape |-> <<Len(histograms), Pow2(color_bits), Pow2(color_bits), Pow2(color_bits)>>,
         hist |-> histograms]

\* HistogramExtractor(color_bits)(x): Permute, then histogramdd
HistogramExtractor(color_bits, x) ==
    /\ last' = Op("HistogramExtractor", <<color_bits, x>>, graph, "ok", <<>>,
                  histogramdd([i \in 1..Len(x) |-> Permute(x[i])], color_bits))
    /\ UNCHANGED <<fixture, controlnet, histogram_adapters, built, sub_adapters, params, subAdapterScale, graph, context>>

\* no adapter around: the extractor and the encoder stand alone
Standalone ==
    /\ Init
    /\ layerType = [i \in Layers |-> "Conv2d"]
    /\ ~useBias
    /\ ~hasParent

\* one call on any batch: the extractor keeps no state from call to call
ExtractorNext ==
    /\ last.op = "init"
    /\ \E color_bits \in ColorBits, x \in ImageBatches : HistogramExtractor(color_bits, x)

ExtractorSpec == Standalone /\ [][ExtractorNext]_vars

\* ----------------------------------------------------- HistogramEncoder
\* batch sizes 0..MaxBatch, patch sizes 1..MaxPatch (with the cube sizes 1, 2 and
\* 4: patch sizes that divide the cube size, that do not, and that exceed it),
\* and embedding dimensions 1..num_attention_heads * MaxDimFactor (multiples of
\* the number of heads and others)
MaxBatch == 2
MaxPatch == 3
MaxDimFactor == 2

\* the default of HistogramEncoder.__init__
num_attention_heads == 3

EncoderConfigs ==
    [color_bits : ColorBits, patch_size : 1..MaxPatch,
     embedding_dim : 1..(num_attention_heads * MaxDimFactor)]

\* HistogramEncoder(color_bits, embedding_dim, patch_size): the layers are built
\* without a look at patch_size against the cube size; the self-attention of
\* each TransformerLayer splits embedding_dim among num_attention_heads heads
\* and refuses a dimension the number of heads does not divide
EncoderInit(cfg) ==
    IF cfg.embedding_dim % num_attention_heads # 0 THEN "AssertionError" ELSE "ok"

\* a histogram tensor of shape (batch, side, side, side) all of whose bins hold `fill`
Histogram(batch, side, fill) == [batch |-> batch, side |-> side, fill |-> fill]

\* the histograms given to an encoder of cube size `side`: all-zero ones and ones
\* with an equal mass in every bin, summing to 1 per batch element
Histograms(side) ==
    {Histogram(b, side, f) :
        b \in 0..MaxBatch, f \in {Fraction(0, 1), Fraction(1, side * side * side)}}

numel(x) == x.batch * x.side * x.side * x.side

\* a tensor of embeddings: its shape, the number of positional encodings added to
\* each sequence, and the histograms it encodes, in batch order
Embedding(err, shape, positions, of) ==
    [err |-> err, shape |-> shape, positions |-> positions, of |-> of]

\* the output side of fl.Conv3d with kernel = stride = patch_size, no padding
ConvOutputSide(side, patch_size) == (side - patch_size) \div patch_size + 1

\* mutant: the patches of a square, not of a cube
PatchTokensSquare(cube_size, patch_size) ==
    (cube_size \div patch_size) * (cube_size \div patch_size)

\* (cube_size // patch_size) ** 3
PatchTokens(cube_size, patch_size) ==
    (cube_size \div patch_size) * (cube_size \div patch_size) * (cube_size \div patch_size)

\* HistogramEncoder.forward: Reshape to one channel, ViT3dEmbeddings (class token
\* concatenated with the reshaped patch embeddings, plus the positional
\* encodings), LayerNorm and the transformer layers, which keep the shape
EncoderForward(cfg, x) ==
    LET cube_size == Pow2(cfg.color_bits)
        n == ConvOutputSide(cube_size, cfg.patch_size)
        tokens == PatchTokens(cube_size, cfg.patch_size)
        max_sequence_length == PatchTokens(cube_size, cfg.patch_size) + 1
    IN  IF x.side # cube_size THEN Embedding("RuntimeError", <<>>, 0, <<>>)
        ELSE IF cfg.patch_size > cube_size THEN Embedding("RuntimeError", <<>>, 0, <<>>)
        ELSE IF cfg.embedding_dim * n * n * n # tokens * cfg.embedding_dim
             THEN Embedding("RuntimeError", <<>>, 0, <<>>)
        ELSE IF 1 + tokens > max_sequence_length THEN Embedding("RuntimeError", <<>>, 0, <<>>)
        ELSE Embedding("ok", <<x.batch, 1 + tokens, cfg.embedding_dim>>, 1 + tokens,
                       [i \in 1..x.batch |-> Histogram(1, x.side, x.fill)])

\* cat(tensors=(a, b), dim=0)
Cat(a, b) ==
    Embedding("ok", <<a.shape[1] + b.shape[1], a.shape[2], a.shape[3]>>, a.positions,
              a.of \o b.of)

\* a statement of compute_histogram_embedding that has been executed
EncoderCall(what) == [call |-> what, of |-> "encoder", layer |-> 0]

\* bool(x == negative_histogram), negative_histogram being <<>> for None or <<t>>:
\* False for None; for a tensor, the elementwise comparison has a truth value
\* only if it has exactly one element
TensorEquals(x, negative) ==
    IF negative = <<>> THEN Result("ok", 0)
    ELSE LET t == negative[1] IN
         IF x.batch # t.batch /\ x.batch # 1 /\ t.batch # 1 THEN Result("RuntimeError", 0)
         ELSE LET batch == IF x.batch = 1 THEN t.batch ELSE x.batch IN
              IF batch * x.side * x.side * x.side # 1 THEN Result("RuntimeError", 0)
              ELSE Result("ok", IF x.fill = t.fill THEN 1 ELSE 0)

\* mutant: no check for an empty tensor
UniformHistogramUnguarded(x) ==
    [err |-> "ok", trace |-> <<EncoderCall("numel"), EncoderCall("divide")>>,
     histogram |-> <<Histogram(x.batch, x.side, Fraction(1, numel(x)))>>]

\* the fallback when negative_histogram is None: (zeros_like(x) + 1.0) * 1 / numel
UniformHistogram(x) ==
    IF numel(x) = 0
    THEN [err |-> "ValueError", trace |-> <<EncoderCall("numel")>>, histogram |-> <<>>]
    ELSE [err |-> "ok", trace |-> <<EncoderCall("numel"), EncoderCall("divide")>>,
          histogram |-> <<Histogram(x.batch, x.side, Fraction(1, numel(x)))>>]

\* HistogramEncoder.compute_histogram_embedding(x, negative_histogram): the
\* statements in order, until one raises
ComputeHistogramEmbedding(cfg, x, negative) ==
    LET conditional == EncoderForward(cfg, x)
        same == TensorEquals(x, negative)
        enc == <<EncoderCall("encode")>>
        Raised(err, trace, neg) ==
            [err |-> err, trace |-> trace, negative_histogram |-> neg,
             embedding |-> Embedding(err, <<>>, 0, <<>>)]
    IN  IF conditional.err # "ok" THEN Raised(conditional.err, <<>>, negative)
        ELSE IF same.err # "ok" THEN Raised(same.err, enc, negative)
        ELSE IF same.value = 1
        THEN [err |-> "ok", trace |-> enc \o <<EncoderCall("cat")>>,
              negative_histogram |-> negative, embedding |-> Cat(conditional, conditional)]
        ELSE LET u == IF negative = <<>> THEN UniformHistogram(x)
                      ELSE [err |-> "ok", trace |-> <<>>, histogram |-> negative]
             IN  IF u.err # "ok" THEN Raised(u.err, enc \o u.trace, u.histogram)
                 ELSE LET negative_embedding == EncoderForward(cfg, u.histogram[1]) IN
                      IF negative_embedding.err # "ok"
                      THEN Raised(negative_embedding.err, enc \o u.trace, u.histogram)
                      ELSE [err |-> "ok",
                            trace |-> enc \o u.trace \o <<EncoderCall("encode"), EncoderCall("cat")>>,
                            negative_histogram |-> u.histogram,
                            embedding |-> Cat(negative_embedding, conditional)]

compute_histogram_embedding(cfg, x, negative) ==
    /\ EncoderInit(cfg) = "ok"
    /\ LET r == ComputeHistogramEmbedding(cfg, x, negative) IN
       last' = Op("compute_histogram_embedding", <<cfg, x, negative>>, graph, r.err, r.trace, r)
    /\ UNCHANGED <<fixture, controlnet, histogram_adapters, built, sub_adapters, params, subAdapterScale, graph, context>>

\* HistogramEncoder(...)(x): the encoder is built, then called on x
HistogramEncoder(cfg, x) ==
    /\ LET r == IF EncoderInit(cfg) # "ok" THEN Embedding(EncoderInit(cfg), <<>>, 0, <<>>)
                ELSE EncoderForward(cfg, x) IN
       last' = Op("HistogramEncoder", <<cfg, x>>, graph, r.err, <<>>, r)
    /\ UNCHANGED <<fixture, controlnet, histogram_adapters, built, sub_adapters, params, subAdapterScale, graph, context>>

\* one call on any histogram: the encoder's output depends on its input alone;
\* compute_histogram_embedding is called on the encoders that could be built
EncoderNext ==
    /\ last.op = "init"
    /\ \E cfg \in EncoderConfigs :
          \E x \in Histograms(Pow2(cfg.color_bits)) :
              \/ HistogramEncoder(cfg, x)
              \/ \E negative \in {<<>>} \cup
                        {<<t>> : t \in {h \in Histograms(Pow2(cfg.color_bits)) : h.batch >= 1}} :
                    compute_histogram_embedding(cfg, x, negative)

EncoderSpec == Standalone /\ [][EncoderNext]_vars

\* ---------------------------------------------------- HistogramDistance
\* flattened tensors of 1..MaxBins elements, each k / MaxMass for k in 0..MaxMass
MaxBins == 3
MaxMass == 2

FlatTensors == UNION {[1..n -> 0..MaxMass] : n \in 1..MaxBins}

RECURSIVE SumOfSquaredDifferences(_, _, _)
SumOfSquaredDifferences(x, y, n) ==
    IF n = 0 THEN 0
    ELSE (x[n] - y[n]) * (x[n] - y[n]) + SumOfSquaredDifferences(x, y, n - 1)

RECURSIVE SumOfProducts(_, _, _)
SumOfProducts(x, y, n) ==
    IF n = 0 THEN 0 ELSE x[n] * y[n] + SumOfProducts(x, y, n - 1)

\* mutant: the mean of the elementwise products
mean_product(x, y) == Fraction(SumOfProducts(x, y, Len(x)), Len(x) * MaxMass * MaxMass)

\* torch.nn.functional.mse_loss(x, y): the mean of the squared differences
mse_loss(x, y) == Fraction(SumOfSquaredDifferences(x, y, Len(x)), Len(x) * MaxMass * MaxMass)

\* HistogramDistance.kl_div
kl_div(x, y) == mse_loss(x, y)

\* distance(x, y)
HistogramDistance(x, y) ==
    /\ last' = Op("HistogramDistance", <<x, y>>, graph, "ok", <<>>, kl_div(x, y))
    /\ UNCHANGED <<fixture, controlnet, histogram_adapters, built, sub_adapters, params, subAdapterScale, graph, context>>

\* one call on two tensors of one shape: the distance depends on them alone
DistanceNext ==
    /\ last.op = "init"
    /\ \E x \in FlatTensors : \E y \in {t \in FlatTensors : Len(t) = Len(x)} :
          HistogramDistance(x, y)

DistanceSpec == Standalone /\ [][DistanceNext]_vars

\* ------------------------------------------- Controlnet, SD1ControlnetAdapter
\* at most MaxControlnets adapters on one target; scale decays in 0..MaxDecay
MaxControlnets == 2
MaxDecay == 2

ControlnetNames == {"canny", "depth"}
Decays == 0..MaxDecay

\* the residuals of the UNet a Controlnet feeds: range(13)
NumResiduals == 13

RECURSIVE Power(_, _)
Power(base, exponent) == IF exponent = 0 THEN 1 ELSE base * Power(base, exponent - 1)

\* mutant: the exponents in ascending order
compute_scale_decays_ascending(scale_decay) ==
    [n \in 1..NumResiduals |-> Power(scale_decay, n - 1)]

\* Controlnet.compute_scale_decays: [scale_decay ** float(12 - i) for i in range(13)],
\* entry i of the list being element i + 1 of the sequence
compute_scale_decays(scale_decay) ==
    [n \in 1..NumResiduals |-> Power(scale_decay, (NumResiduals - 1) - (n - 1))]

\* Controlnet.__init__: the name, the scale, _scale_decay and the computed list
Controlnet(name, scale, scale_decay) ==
    [name |-> name, scale |-> scale, scale_decay |-> scale_decay,
     scale_decays |-> compute_scale_decays(scale_decay)]

\* SD1ControlnetAdapter.__init__(target, name, scale, scale_decay): the adapter
\* builds its Controlnet and injects nothing
ControlnetAdapterInit(name, scale, scale_decay) ==
    /\ Len(controlnets) < MaxControlnets
    /\ controlnets' = Append(controlnets, Controlnet(name, scale, scale_decay))
    /\ last' = Op("SD1ControlnetAdapter", <<Len(controlnets) + 1, scale, scale_decay>>, graph,
                  "ok", <<>>, children)
    /\ UNCHANGED <<fixture, histogram_adapters, built, sub_adapters, params, subAdapterScale, graph, context, children>>

\* the scale setter of the a-th adapter: self.controlnet.scale = value
controlnet_scale(a, value) ==
    /\ a \in 1..Len(controlnets)
    /\ controlnets' = [controlnets EXCEPT ![a].scale = value]
    /\ last' = Op("controlnet.scale", <<a, value>>, graph, "ok", <<>>, children)
    /\ UNCHANGED <<fixture, histogram_adapters, built, sub_adapters, params, subAdapterScale, graph, context, children>>

\* the scale_decay setter of the a-th adapter: Controlnet's setter stores the
\* value and recomputes the list
controlnet_scale_decay(a, value) ==
    /\ a \in 1..Len(controlnets)
    /\ controlnets' = [controlnets EXCEPT ![a].scale_decay = value,
                                          ![a].scale_decays = compute_scale_decays(value)]
    /\ last' = Op("controlnet.scale_decay", <<a, value>>, graph, "ok", <<>>, children)
    /\ UNCHANGED <<fixture, histogram_adapters, built, sub_adapters, params, subAdapterScale, graph, context, children>>

\* [x for x in self.target if isinstance(x, Controlnet)]
TargetControlnets(ch) == SelectSeq(ch, LAMBDA x : x >= 1)

\* a call made by a controlnet adapter
ControlnetCall(what, a) == [call |-> what, of |-> "controlnet", layer |-> a]

\* mutant: no check of the names
ControlnetInjectUnnamed(ch, cns, a) ==
    IF a \in RefSet(TargetControlnets(ch))
    THEN [err |-> "AssertionError", children |-> ch, trace |-> <<>>]
    ELSE [err |-> "ok", children |-> <<a>> \o ch,
          trace |-> <<ControlnetCall("insert", a), ControlnetCall("Adapter.inject", a)>>]

\* SD1ControlnetAdapter.inject of the a-th adapter: the two assertions, then
\* target.insert(0, controlnet), then super().inject(parent), which leaves the
\* target's children alone
ControlnetInject(ch, cns, a) ==
    IF a \in RefSet(TargetControlnets(ch))
    THEN [err |-> "AssertionError", children |-> ch, trace |-> <<>>]
    ELSE IF \E c \in RefSet(TargetControlnets(ch)) : cns[c].name = cns[a].name
    THEN [err |-> "AssertionError", children |-> ch, trace |-> <<>>]
    ELSE [err |-> "ok", children |-> <<a>> \o ch,
          trace |-> <<ControlnetCall("insert", a), ControlnetCall("Adapter.inject", a)>>]

controlnet_inject(a) ==
    /\ a \in 1..Len(controlnets)
    /\ LET r == ControlnetInject(children, controlnets, a) IN
        /\ children' = r.children
        /\ last' = Op("controlnet.inject", <<a>>, graph, r.err, r.trace, children)
    /\ UNCHANGED <<fixture, histogram_adapters, built, sub_adapters, params, subAdapterScale, graph, context, controlnets>>

\* Chain.remove(module): the first child that is the module, ValueError if none
Remove(ch, a) ==
    IF a \notin RefSet(ch) THEN [err |-> "ValueError", children |-> ch]
    ELSE LET k == CHOOSE n \in 1..Len(ch) : ch[n] = a /\ \A m \in 1..(n - 1) : ch[m] # a
         IN  [err |-> "ok", children |-> SubSeq(ch, 1, k - 1) \o SubSeq(ch, k + 1, Len(ch))]

\* SD1ControlnetAdapter.eject of the a-th adapter: target.remove(controlnet), then
\* super().eject()
controlnet_eject(a) ==
    /\ a \in 1..Len(controlnets)
    /\ LET r == Remove(children, a) IN
        /\ children' = r.children
        /\ last' = Op("controlnet.eject", <<a>>, graph, r.err,
                      IF r.err = "ok"
                      THEN <<ControlnetCall("remove", a), ControlnetCall("Adapter.eject", a)>>
                      ELSE <<>>,
                      children)
    /\ UNCHANGED <<fixture, histogram_adapters, built, sub_adapters, params, subAdapterScale, graph, context, controlnets>>

\* SD1ControlnetAdapter.set_controlnet_condition of the a-th adapter:
\* self.set_context("controlnet", {f"condition_{self.name}": condition})
set_controlnet_condition(a, condition) ==
    /\ a \in 1..Len(controlnets)
    /\ context' = SetContextTo(context, "controlnet",
                               [k \in {"condition_" \o controlnets[a].name} |-> condition])
    /\ last' = Op("set_controlnet_condition", <<a, condition>>, graph, "ok", <<>>, children)
    /\ UNCHANGED <<fixture, histogram_adapters, built, sub_adapters, params, subAdapterScale,
                   graph, controlnet>>

\* the default of SD1ControlnetAdapter.__init__
DefaultScaleDecay == 1

\* controlnet adapters of one target, built with the default scale decay,
\* injected, given their condition and ejected in any order
ControlnetNext ==
    \/ \E name \in ControlnetNames, scale \in Scales :
          ControlnetAdapterInit(name, scale, DefaultScaleDecay)
    \/ \E a \in 1..MaxControlnets : controlnet_inject(a)
    \/ \E a \in 1..MaxControlnets : controlnet_eject(a)
    \/ \E a \in 1..MaxControlnets, condition \in Embeddings :
          set_controlnet_condition(a, condition)

ControlnetSpec == Standalone /\ [][ControlnetNext]_vars

\* controlnets built with any scales, which are then assigned any number of
\* times; the scales do not depend on the name
DecayNext ==
    \/ \E scale \in Scales, scale_decay \in Decays :
          ControlnetAdapterInit("canny", scale, scale_decay)
    \/ \E a \in 1..MaxControlnets, value \in Scales : controlnet_scale(a, value)
    \/ \E a \in 1..MaxControlnets, value \in Decays : controlnet_scale_decay(a, value)

DecaySpec == Standalone /\ [][DecayNext]_vars

\* -------------------------------------------------------------- BaseBatch
\* attribute values hold at most MaxRows items along their first dimension
MaxRows == 2

ItemValues == {0, 1}

Rows == UNION {[1..n -> ItemValues] : n \in 0..MaxRows}

\* the values passed to a batch: lists and tensors with a first dimension, a
\* tensor without dimensions, and a value that is neither a Tensor nor a list
AttributeValue(type, rank, items) == [type |-> type, rank |-> rank, items |-> items]

AttributeValues ==
    {AttributeValue(t, 1, r) : t \in {"Tensor", "list"}, r \in Rows}
        \cup {AttributeValue("Tensor", 0, <<>>), AttributeValue("int", 0, <<>>)}

\* subclasses of BaseBatch, by their type hints in declaration order, each
\* simple_hint being Tensor or list as TypeCheckMeta demands
BatchClasses ==
    {<<[key |-> "texts", type |-> "list"]>>,
     <<[key |-> "texts", type |-> "list"], [key |-> "latents", type |-> "Tensor"]>>}

HintKeys(cls) == {cls[n].key : n \in 1..Len(cls)}

\* the keyword arguments, one of them named by no class
Kwargs(cls) == UNION {[ks -> AttributeValues] : ks \in SUBSET (HintKeys(cls) \cup {"extra"})}

\* a batch, or the exception its construction raised
Batch(err, attrs, length) == [err |-> err, attrs |-> attrs, length |-> length]

\* mutant: no comparison of the sizes
RECURSIVE BatchInitUnsized(_, _, _, _)
BatchInitUnsized(cls, kwargs, n, size) ==
    IF n > Len(cls)
    THEN IF size = -1 THEN Batch("ValueError", <<>>, 0)
         ELSE Batch("ok", [k \in HintKeys(cls) |-> kwargs[k]], size)
    ELSE LET key == cls[n].key IN
         IF key \notin DOMAIN kwargs THEN Batch("ValueError", <<>>, 0)
         ELSE IF kwargs[key].type # cls[n].type THEN Batch("TypeError", <<>>, 0)
         ELSE IF kwargs[key].rank = 0 THEN Batch("IndexError", <<>>, 0)
         ELSE IF Len(kwargs[key].items) = 0 THEN Batch("ValueError", <<>>, 0)
         ELSE BatchInitUnsized(cls, kwargs, n + 1, Len(kwargs[key].items))

\* the loop over the type hints, from the n-th on, `size` being -1 for None:
\* missing, wrong type, first dimension, empty, size mismatch, setattr
RECURSIVE BatchInitFrom(_, _, _, _)
BatchInitFrom(cls, kwargs, n, size) ==
    IF n > Len(cls)
    THEN IF size = -1 THEN Batch("ValueError", <<>>, 0)
         ELSE Batch("ok", [k \in HintKeys(cls) |-> kwargs[k]], size)
    ELSE LET key == cls[n].key IN
         IF key \notin DOMAIN kwargs THEN Batch("ValueError", <<>>, 0)
         ELSE IF kwargs[key].type # cls[n].type THEN Batch("TypeError", <<>>, 0)
         ELSE IF kwargs[key].rank = 0 THEN Batch("IndexError", <<>>, 0)
         ELSE IF Len(kwargs[key].items) = 0 THEN Batch("ValueError", <<>>, 0)
         ELSE IF size # -1 /\ size # Len(kwargs[key].items) THEN Batch("ValueError", <<>>, 0)
         ELSE BatchInitFrom(cls, kwargs, n + 1, Len(kwargs[key].items))

\* BaseBatch.__init__(**kwargs)
BatchInit(cls, kwargs) ==
    IF \E key \in DOMAIN kwargs : key \notin HintKeys(cls) THEN Batch("ValueError", <<>>, 0)
    ELSE BatchInitFrom(cls, kwargs, 1, -1)

\* cls(**kwargs)
BaseBatch(cls, kwargs) ==
    /\ LET b == BatchInit(cls, kwargs) IN
       last' = Op("BaseBatch", <<cls, kwargs>>, graph, b.err, <<>>, b)
    /\ UNCHANGED <<fixture, controlnet, histogram_adapters, built, sub_adapters, params, subAdapterScale, graph, context>>

\* value[i : i + 1], i counted from 0
Slice(value, i) == [value EXCEPT !.items = SubSeq(value.items, i + 1, i + 1)]

\* BaseBatch.split: one batch per index, built from the slices
BatchSplit(cls, b) ==
    [n \in 1..b.length |-> BatchInit(cls, [key \in HintKeys(cls) |-> Slice(b.attrs[key], n - 1)])]

split(cls, kwargs) ==
    /\ BatchInit(cls, kwargs).err = "ok"
    /\ last' = Op("split", <<cls, kwargs>>, graph, "ok", <<>>, BatchSplit(cls, BatchInit(cls, kwargs)))
    /\ UNCHANGED <<fixture, controlnet, histogram_adapters, built, sub_adapters, params, subAdapterScale, graph, context>>

\* mutant: the sublists taken last to first
RECURSIVE FlattenReversed(_, _)
FlattenReversed(batch_list, key) ==
    IF batch_list = <<>> THEN <<>>
    ELSE FlattenReversed(Tail(batch_list), key) \o Head(batch_list).attrs[key].items

\* cat(tensors, dim=0), or the flattened list of the sublists
RECURSIVE Flatten(_, _)
Flatten(batch_list, key) ==
    IF batch_list = <<>> THEN <<>>
    ELSE Head(batch_list).attrs[key].items \o Flatten(Tail(batch_list), key)

\* BaseBatch.collate(batch_list)
BatchCollate(cls, batch_list) ==
    IF Len(batch_list) = 0 THEN Batch("ValueError", <<>>, 0)
    ELSE BatchInit(cls, [key \in HintKeys(cls) |->
                            [batch_list[1].attrs[key] EXCEPT !.items = Flatten(batch_list, key)]])

\* the batch lists: every list of batches is the list of the consecutive chunks
\* of the batch that holds all their items, cut at the indices in `cuts`
RECURSIVE Chunks(_, _, _, _)
Chunks(cls, b, cuts, from) ==
    IF from > b.length THEN <<>>
    ELSE LET to == CHOOSE t \in from..b.length :
                      /\ t = b.length \/ t \in cuts
                      /\ \A u \in from..(t - 1) : u \notin cuts
         IN  <<BatchInit(cls, [key \in HintKeys(cls) |->
                   [b.attrs[key] EXCEPT !.items = SubSeq(b.attrs[key].items, from, to)]])>>
             \o Chunks(cls, b, cuts, to + 1)

collate(cls, batch_list) ==
    /\ LET b == BatchCollate(cls, batch_list) IN
       last' = Op("collate", <<cls, batch_list>>, graph, b.err, <<>>, b)
    /\ UNCHANGED <<fixture, controlnet, histogram_adapters, built, sub_adapters, params, subAdapterScale, graph, context>>

\* BaseBatch.__eq__ on two batches of one class: lists by !=, tensors by
\* (a == b).all(), which needs shapes that broadcast
BatchEq(cls, a, b) ==
    LET Same(x, y) ==
            IF x.type = "list" THEN x.items = y.items
            ELSE IF Len(x.items) = Len(y.items) THEN x.items = y.items
            ELSE IF Len(x.items) = 1 THEN \A n \in 1..Len(y.items) : y.items[n] = x.items[1]
            ELSE IF Len(y.items) = 1 THEN \A n \in 1..Len(x.items) : x.items[n] = y.items[1]
            ELSE FALSE
    IN  \A key \in HintKeys(cls) : Same(a.attrs[key], b.attrs[key])

\* one call: a construction, a split of a batch, or a collation of a list of batches
BatchNext ==
    /\ last.op = "init"
    /\ \E cls \in BatchClasses :
          \/ \E kwargs \in Kwargs(cls) : BaseBatch(cls, kwargs)
          \/ \E kwargs \in Kwargs(cls) : split(cls, kwargs)
          \/ collate(cls, <<>>)
          \/ \E kwargs \in Kwargs(cls) :
                /\ BatchInit(cls, kwargs).err = "ok"
                /\ \E cuts \in SUBSET (1..(MaxRows - 1)) :
                      collate(cls, Chunks(cls, BatchInit(cls, kwargs), cuts, 1))

BatchSpec == Standalone /\ [][BatchNext]_vars

\* ------------------------------------------------------- DataLoaderConfig
\* integer options and dataset lengths take the values -1..MaxWorkers
MaxWorkers == 2

Counts == (-1)..MaxWorkers

\* prefetch_factor: <<>> for None, <<n>> for the integer n
OptionalCounts == {<<>>} \cup {<<n>> : n \in Counts}

DataLoaderConfigs ==
    [batch_size : Counts, num_workers : Counts, pin_memory : BOOLEAN,
     prefetch_factor : OptionalCounts, persistent_workers : BOOLEAN,
     drop_last : BOOLEAN, shuffle : BOOLEAN]

\* the field types: PositiveInt, NonNegativeInt, PositiveInt | None
FieldsValid(cfg) ==
    /\ cfg.batch_size > 0
    /\ cfg.num_workers >= 0
    /\ cfg.prefetch_factor # <<>> => cfg.prefetch_factor[1] > 0

check_prefetch_factor(cfg) ==
    IF cfg.prefetch_factor # <<>> /\ cfg.num_workers = 0 THEN "ValueError" ELSE "ok"

\* mutant: persistent workers are not looked at
check_num_workers_skipped(cfg) == "ok"

check_num_workers(cfg) ==
    IF cfg.num_workers = 0 /\ cfg.persistent_workers = TRUE THEN "ValueError" ELSE "ok"

\* pydantic's validation: the fields, then the two model validators, any
\* failure being reported as a ValidationError
Validate(cfg) ==
    IF ~FieldsValid(cfg) THEN "ValidationError"
    ELSE IF check_prefetch_factor(cfg) # "ok" THEN "ValidationError"
    ELSE IF check_num_workers(cfg) # "ok" THEN "ValidationError"
    ELSE "ok"

\* DataLoaderConfig(**cfg)
DataLoaderConfig(cfg) ==
    /\ last' = Op("DataLoaderConfig", <<cfg>>, graph, Validate(cfg), <<>>, cfg)
    /\ UNCHANGED <<fixture, controlnet, histogram_adapters, built, sub_adapters, params, subAdapterScale, graph, context>>

\* DatasetFromCallable(get_item, length); the output is len() of the dataset
DatasetFromCallable(length) ==
    /\ last' = Op("DatasetFromCallable", <<length>>, graph,
                  IF length > 0 THEN "ok" ELSE "AssertionError", <<>>,
                  IF length > 0 THEN length ELSE 0)
    /\ UNCHANGED <<fixture, controlnet, histogram_adapters, built, sub_adapters, params, subAdapterScale, graph, context>>

\* one construction, of a configuration or of a dataset
LoaderNext ==
    /\ last.op = "init"
    /\ \/ \E cfg \in DataLoaderConfigs : DataLoaderConfig(cfg)
       \/ \E length \in Counts : DatasetFromCallable(length)

LoaderSpec == Standalone /\ [][LoaderNext]_vars

\* the scales alone: built, then set on one sub-adapter or on all
ScaleNext ==
    \/ \E s \in Scales, fresh \in OneInitialisation : Construct(s, fresh)
    \/ \E n \in Layers, v \in Scales : sub_adapter_scale(n, v)
    \/ \E v \in Scales : set_scale(v)

ScaleSpec == Init /\ [][ScaleNext]_vars

\* the list of the adapter's tensors: built, zero-initialised, loaded and read
ListingNext ==
    \/ \E s \in Scales, fresh \in OneInitialisation : Construct(s, fresh)
    \/ zero_init
    \/ \E n \in Layers, k, v \in Tensors : sub_adapter_load_weights(n, k, v)
    \/ weights

ListingSpec == Init /\ [][ListingNext]_vars

\* the adapter's tensors: built, zeroed, loaded, exported and imported
WeightsNext ==
    \/ \E s \in Scales, fresh \in Initialisations : Construct(s, fresh)
    \/ zero_init
    \/ \E n \in Layers, k, v \in Tensors : sub_adapter_load_weights(n, k, v)
    \/ \E fresh \in [(DOMAIN params) \ BaseRefs -> FreshTensors] : import_weights(fresh)

\* on a UNet whose layers are all cross-attention layers (every layer gets a
\* sub-adapter), with and without bias
WeightsSpec == AttentionFixture /\ [][WeightsNext]_vars

TrainerNext ==
    \/ \E e \in Embeddings, x \in Tensors, noise \in Tensors, w \in ColorLossWeights :
          compute_loss(e, x, noise, w)
    \/ \E x \in ConstantImages, y \in ConstantImages : color_loss(x, y)
    \/ on_train_begin
    \/ \E e \in Embeddings, x \in Tensors : compute_batch_evaluation(e, x)

\* the trainer's handlers, called in any order
TrainerSpec == Init /\ [][TrainerNext]_vars

\* ================================================================ claims
\* the graph after a successful inject() on the freshly built network
InjectedGraph == InjectAll(InitialGraph(hasParent), sub_adapters).g

FullyInjected(g) ==
    OrchestratorInjected(g) /\ \A i \in Targets(sub_adapters) : SubInjected(g, i)

NotInjected(g) ==
    ~OrchestratorInjected(g) /\ \A i \in Targets(sub_adapters) : ~SubInjected(g, i)

\* the shared context once the orchestrator has written the embedding e into it
Delivered(e) == WriteEmbedding(<<>>, e)

\* C1: after set_histogram_embedding(e), the context lookup of the key branch and
\* of the value branch of a HistogramCrossAttention returns e (the two UseContext
\* layers are built with the same namespace and key in every instance).
C1_ReadersReturnWrittenEmbedding ==
    (last.op = "set_histogram_embedding" /\ adapters # <<>>) =>
        /\ KeyBranchLookup(context) = Result("ok", last.args[1])
        /\ ValueBranchLookup(context) = Result("ok", last.args[1])

\* C2: after zero_init(), every tensor the sub-adapters introduced (key and value
\* projection weights, and their biases when the wrapped attention uses bias) is
\* zero, so for every input and every embedding the injected network's output is
\* the pre-injection output.
C2_ZeroInitMakesAdapterNoOp ==
    last.op = "zero_init" =>
        /\ \A i \in Targets(sub_adapters) : \A r \in SubAdapterTensors(i, useBias) : params[r] = 0
        /\ \A x \in Tensors, e \in Embeddings :
              UnetForward(x, InjectedGraph, params, subAdapterScale, Delivered(e))
                  = OriginalForward(x, params)

\* C3: inject() on a freshly built network followed by eject() restores the graph:
\* every layer is back in its slot with its parent, no sub-adapter and no
\* orchestrator remains, and the output on every input is the pre-injection output.
C3_InjectThenEjectRestores ==
    [][(/\ last.op = "inject" /\ last.err = "ok"
        /\ last.pre = InitialGraph(hasParent)
        /\ last'.op = "eject")
       => (/\ last'.err = "ok"
           /\ graph' = InitialGraph(hasParent)
           /\ \A x \in Tensors :
                 UnetForward(x, graph', params', subAdapterScale', context')
                     = OriginalForward(x, params'))]_vars

C3_Witness ==
    /\ last.op = "eject" /\ last.err = "ok"
    /\ Len(sub_adapters) >= 2
    /\ hasParent
    /\ last.pre = InjectedGraph
    /\ FullyInjected(last.pre)
    /\ graph = InitialGraph(hasParent)

\* C4: no operation of the adapter changes a weight tensor of the base UNet (the
\* targeted attention layers' and the other layers'); only the adapter's own change.
C4_BaseWeightsUnchanged ==
    [][\A r \in BaseRefs : r \in DOMAIN params' /\ params'[r] = params[r]]_vars

C4_Witness ==
    /\ last.op = "zero_init"
    /\ Len(sub_adapters) >= 2
    /\ \A n \in 1..Len(sub_adapters) : params[Ref(sub_adapters[n].target, "key")] = 0
    /\ \A r \in BaseRefs : params[r] = r.layer

\* C5: in every training step and every evaluation batch, set_histogram_embedding
\* is called with the step's embedding before any forward pass of the UNet, it is
\* the step's only write of the conditioning context, and the forward pass reads
\* the embedding of this step.
C5_EmbeddingWrittenBeforeForward ==
    last.op \in {"compute_loss", "compute_batch_evaluation"} =>
        LET writes == {n \in 1..Len(last.trace) : last.trace[n].call = "set_histogram_embedding"}
            passes == {n \in 1..Len(last.trace) : last.trace[n].call = "unet"}
        IN  /\ Cardinality(writes) = 1
            /\ \A w \in writes, f \in passes : w < f
            /\ UseContext(context, WriterContext, WriterKey) = Result("ok", last.args[1])

\* C6: inject() on an adapter that is already injected raises an assertion error
\* and leaves the graph as it was: no sub-adapter is injected again.
C6_DoubleInjectFails ==
    (last.op = "inject" /\ FullyInjected(last.pre)) =>
        /\ last.err = "AssertionError"
        /\ last.trace = <<>>
        /\ graph = last.pre

C6_Witness ==
    /\ last.op = "inject"
    /\ FullyInjected(last.pre)
    /\ Len(sub_adapters) >= 2
    /\ last.err = "AssertionError"

\* C7: eject() on an adapter that is not injected raises an error and leaves the
\* graph unchanged.
C7_EjectNotInjectedFails ==
    (last.op = "eject" /\ NotInjected(last.pre)) =>
        /\ last.err # "ok"
        /\ graph = last.pre

\* C8: inject() injects every sub-adapter, in sub_adapters order, before it
\* injects the orchestrator itself.
C8_SubAdaptersInjectedBeforeSelf ==
    last.op = "inject" =>
        /\ \A n \in 1..Len(last.trace) :
              last.trace[n].of = "self" =>
                  /\ n = Len(sub_adapters) + 1
                  /\ \A m \in 1..Len(sub_adapters) :
                        last.trace[m] = SubCall("inject", sub_adapters[m].target)
        /\ (last.err = "ok" /\ last.pre = InitialGraph(hasParent)) => FullyInjected(graph)

C8_Witness ==
    /\ last.op = "inject" /\ last.err = "ok"
    /\ Len(sub_adapters) >= 2
    /\ last.trace[Len(last.trace)] = SelfCall("inject")
    /\ FullyInjected(graph)

\* C9: eject() ejects every sub-adapter first and only then the orchestrator.
C9_SubAdaptersEjectedBeforeSelf ==
    last.op = "eject" =>
        \A n \in 1..Len(last.trace) :
            last.trace[n].of = "self" =>
                /\ n = Len(sub_adapters) + 1
                /\ \A m \in 1..Len(sub_adapters) :
                      last.trace[m] = SubCall("eject", sub_adapters[m].target)

C9_Witness ==
    /\ last.op = "eject" /\ last.err = "ok"
    /\ Len(sub_adapters) >= 2
    /\ FullyInjected(last.pre)
    /\ last.trace[Len(last.trace)] = SelfCall("eject")

\* C10: the constructor builds exactly one sub-adapter, a
\* HistogramCrossAttentionAdapter, for each attention layer that is not a
\* self-attention layer, and none for a layer of the self-attention type or of a
\* subclass of it.
C10_OneAdapterPerCrossAttention ==
    built =>
        /\ \A n \in 1..Len(sub_adapters) :
              sub_adapters[n].class = "HistogramCrossAttentionAdapter"
        /\ Targets(sub_adapters)
              = {i \in Layers : IsAttention(layerType[i]) /\ ~IsSelfAttentionType(layerType[i])}
        /\ \A n, m \in 1..Len(sub_adapters) :
              sub_adapters[n].target = sub_adapters[m].target => n = m

\* C11: set_scale(v) leaves every sub-adapter with scale v, whatever the scales
\* were before, and changes no weight tensor.
C11_SetScaleReachesEverySubAdapter ==
    [][last'.op = "set_scale" =>
          /\ \A n \in 1..Len(sub_adapters') :
                subAdapterScale'[sub_adapters'[n].target] = last'.args[1]
          /\ params' = params]_vars

C11_Witness ==
    /\ last.op = "set_scale"
    /\ Len(sub_adapters) >= 2
    /\ last.args[1] = 0
    /\ \A i \in Targets(sub_adapters) : subAdapterScale[i] = 0
    /\ \E r \in DOMAIN params : r \notin BaseRefs /\ params[r] # 0

\* C12: a read of SD1HistogramAdapter.weights returns, for the n-th sub-adapter of
\* the list, its key projection weight at position 2n-1 and its value projection
\* weight at position 2n, and nothing else: twice as many tensors as sub-adapters.
C12_WeightsInListOrder ==
    last.op = "weights" =>
        /\ Len(last.out) = 2 * Len(sub_adapters)
        /\ \A n \in 1..Len(sub_adapters) :
              /\ last.out[2 * n - 1] = Ref(sub_adapters[n].target, "key")
              /\ last.out[2 * n] = Ref(sub_adapters[n].target, "value")

C12_Witness ==
    /\ last.op = "weights"
    /\ Len(sub_adapters) >= 2
    /\ Len(last.out) = 4
    /\ params[last.out[1]] # params[last.out[2]]

\* C13: after the exported weights are imported into a fresh adapter of the same
\* configuration, the fresh adapter has the exporting adapter's key and value
\* projection weight in every layer, and its injected network gives the same
\* output on every input and every embedding.
C13_ExportImportRoundTrip ==
    last.op = "import_weights" =>
        /\ \A n \in 1..Len(sub_adapters) :
              /\ params[Ref(sub_adapters[n].target, "key")]
                    = last.out[Ref(sub_adapters[n].target, "key")]
              /\ params[Ref(sub_adapters[n].target, "value")]
                    = last.out[Ref(sub_adapters[n].target, "value")]
        /\ \A x \in Tensors, e \in Embeddings :
              UnetForward(x, InjectedGraph, params, subAdapterScale, Delivered(e))
                  = UnetForward(x, InjectedGraph, last.out, subAdapterScale, Delivered(e))

\* the number a sequence of decimal digits writes
RECURSIVE DigitsValue(_)
DigitsValue(ds) ==
    IF ds = <<>> THEN 0 ELSE 10 * DigitsValue(SubSeq(ds, 1, Len(ds) - 1)) + ds[Len(ds)]

\* C14: when the adapter is the UNet's parent, the saved mapping has one entry per
\* tensor of adapter.weights: the i-th tensor (from 0) under the key "unet."
\* followed by i written with three digits, zero-padded; the keys are distinct.
C14_CheckpointKeysAndTensors ==
    (last.op = "on_checkpoint_save" /\ OrchestratorInjected(last.pre)) =>
        LET w == Weights(sub_adapters) IN
        /\ last.err = "ok"
        /\ Cardinality(DOMAIN last.out) = Len(w)
        /\ \A k \in DOMAIN last.out :
              /\ k.prefix = "unet."
              /\ Len(k.index) = 3
              /\ DigitsValue(k.index) \in 0..(Len(w) - 1)
              /\ last.out[k] = params[w[DigitsValue(k.index) + 1]]

C14_Witness ==
    /\ last.op = "on_checkpoint_save" /\ last.err = "ok"
    /\ Len(sub_adapters) >= 2
    /\ [prefix |-> "unet.", index |-> <<0, 0, 3>>] \in DOMAIN last.out
    /\ \E k1, k2 \in DOMAIN last.out : last.out[k1] # last.out[k2]

\* the sum of the numerators of the bins whose first coordinates are `prefix`,
\* the next coordinate running from v to bins - 1
RECURSIVE SumBinsFrom(_, _, _, _)
SumBinsFrom(h, bins, prefix, v) ==
    IF Len(prefix) = 3 THEN h[prefix].num
    ELSE IF v >= bins THEN 0
    ELSE SumBinsFrom(h, bins, Append(prefix, v), 0) + SumBinsFrom(h, bins, prefix, v + 1)

SumBins(h, bins) == SumBinsFrom(h, bins, <<>>, 0)

\* every channel value of the batch x is v, resp. lies in the normalized range [0, 1]
AllChannels(x, v) ==
    \A i \in DOMAIN x : \A c \in 1..3 : \A k \in DOMAIN x[i][c] : x[i][c][k] = v

InNormalizedRange(x) ==
    \A i \in DOMAIN x : \A c \in 1..3 : \A k \in DOMAIN x[i][c] : x[i][c][k] \in {0, 1}

\* C15: for a batch whose channel values lie in the normalized range, the output
\* has shape (batch, S, S, S), S = 2^color_bits, and every batch element's bins
\* are non-negative and sum to 1 (no pixel is left out).
C15_HistogramIsDistribution ==
    (last.op = "HistogramExtractor" /\ InNormalizedRange(last.args[2])) =>
        LET S == Pow2(last.args[1]) IN
        /\ last.out.shape = <<Len(last.args[2]), S, S, S>>
        /\ \A i \in 1..Len(last.args[2]) :
              LET h == last.out.hist[i] IN
              /\ DOMAIN h = [1..3 -> 0..(S - 1)]
              /\ \A bin \in DOMAIN h : h[bin].num >= 0 /\ h[bin].den > 0
              /\ \A bin \in DOMAIN h : h[bin].den = Len(last.args[2][i][1])
              /\ SumBins(h, S) = Len(last.args[2][i][1])

C15_Witness ==
    /\ last.op = "HistogramExtractor"
    /\ InNormalizedRange(last.args[2])
    /\ last.args[1] = 2
    /\ Len(last.args[2]) = 1
    /\ last.out.hist[1][<<0, 1, 0>>] = Fraction(1, 2)
    /\ last.out.hist[1][<<1, 1, 1>>] = Fraction(1, 2)

\* C16: an image whose channel values are all 0 has mass 1 in bin (0,0,0); an
\* image whose channel values are all 1.0 has mass 1 in bin (S-1,S-1,S-1).
C16_ExtremeImagesFillCornerBins ==
    last.op = "HistogramExtractor" =>
        LET S == Pow2(last.args[1])
            x == last.args[2]
        IN  /\ AllChannels(x, 0) =>
                  \A i \in 1..Len(x) :
                      last.out.hist[i][<<0, 0, 0>>].num = last.out.hist[i][<<0, 0, 0>>].den
            /\ AllChannels(x, 1) =>
                  \A i \in 1..Len(x) :
                      last.out.hist[i][<<S - 1, S - 1, S - 1>>].num
                          = last.out.hist[i][<<S - 1, S - 1, S - 1>>].den

\* the encodings, one per batch element, of the histogram t
EncodingsOf(t) == [i \in 1..t.batch |-> Histogram(1, t.side, t.fill)]

\* C17: compute_histogram_embedding(x, negative_histogram) returns the
\* unconditional embedding followed by the conditional one along the batch axis,
\* twice the input batch size: the unconditional part encodes the supplied
\* negative histogram, or a histogram of equal bins when none is supplied, and
\* supplying a negative histogram does not raise.
C17_UnconditionalThenConditional ==
    (/\ last.op = "compute_histogram_embedding"
     /\ last.args[1].patch_size <= Pow2(last.args[1].color_bits)
     /\ last.args[2].batch >= 1
     /\ last.args[3] # <<>> => last.args[3][1].batch = last.args[2].batch) =>
        LET x == last.args[2]
            e == last.out.embedding
        IN  /\ last.err = "ok"
            /\ e.shape[1] = 2 * x.batch
            /\ Len(e.of) = 2 * x.batch
            /\ SubSeq(e.of, x.batch + 1, 2 * x.batch) = EncodingsOf(x)
            /\ last.args[3] # <<>> =>
                  SubSeq(e.of, 1, x.batch) = EncodingsOf(last.args[3][1])
            /\ last.args[3] = <<>> =>
                  \A i \in 1..x.batch :
                      /\ e.of[i].side = x.side
                      /\ e.of[i].fill = e.of[1].fill
                      /\ e.of[i].fill.num > 0

\* C18: the histogram synthesized when no negative histogram is given has equal
\* bins that sum to 1 for each batch element, whatever the batch size.
C18_UniformHistogramSumsToOne ==
    (/\ last.op = "compute_histogram_embedding"
     /\ last.args[3] = <<>>
     /\ last.err = "ok") =>
        LET u == last.out.negative_histogram[1] IN
        /\ u.batch = last.args[2].batch
        /\ u.side = last.args[2].side
        /\ u.side * u.side * u.side * u.fill.num = u.fill.den

\* C19 as stated: on an input with zero elements and no negative histogram,
\* compute_histogram_embedding of any encoder raises ValueError and never divides
\* by the element count.
C19_EmptyInputRaisesValueError ==
    (/\ last.op = "compute_histogram_embedding"
     /\ numel(last.args[2]) = 0
     /\ last.args[3] = <<>>) =>
        /\ last.err = "ValueError"
        /\ \A n \in 1..Len(last.trace) : last.trace[n].call # "divide"

\* C19 amended: on an input with zero elements and no negative histogram,
\* compute_histogram_embedding of any encoder raises and never divides by the
\* element count: ValueError, after the encoding and the read of the element
\* count, when the encoder's patch_size does not exceed the cube size S, and the
\* RuntimeError of the encoder's own forward pass, before anything else, when it
\* does.
C19_EmptyInputRaisesBeforeDividing ==
    (/\ last.op = "compute_histogram_embedding"
     /\ numel(last.args[2]) = 0
     /\ last.args[3] = <<>>) =>
        /\ \A n \in 1..Len(last.trace) : last.trace[n].call # "divide"
        /\ IF last.args[1].patch_size <= Pow2(last.args[1].color_bits)
           THEN /\ last.err = "ValueError"
                /\ last.trace = <<EncoderCall("encode"), EncoderCall("numel")>>
           ELSE /\ last.err = "RuntimeError"
                /\ last.trace = <<>>

\* an empty batch given to an encoder whose patch size is the cube size
C19_Witness ==
    /\ last.op = "compute_histogram_embedding"
    /\ last.args[1].color_bits = 1
    /\ last.args[1].patch_size = 2
    /\ numel(last.args[2]) = 0
    /\ last.args[3] = <<>>
    /\ last.err = "ValueError"
    /\ last.trace = <<EncoderCall("encode"), EncoderCall("numel")>>

\* C20 as stated: for every batch size, color_bits, patch_size and embedding_dim
\* the encoder maps a histogram of side S to an embedding of shape
\* (batch, (S/patch_size)^3 + 1, embedding_dim), one positional encoding per token.
\* The number of tokens t is (S/patch_size)^3 + 1 when patch_size^3 * (t - 1) = S^3.
C20_ShapeForEveryPatchSize ==
    last.op = "HistogramEncoder" =>
        /\ last.err = "ok"
        /\ Len(last.out.shape) = 3
        /\ last.out.shape[1] = last.args[2].batch
        /\ last.args[1].patch_size * last.args[1].patch_size * last.args[1].patch_size
              * (last.out.shape[2] - 1)
              = Pow2(last.args[1].color_bits) * Pow2(last.args[1].color_bits)
                  * Pow2(last.args[1].color_bits)
        /\ last.out.shape[3] = last.args[1].embedding_dim
        /\ last.out.positions = last.out.shape[2]
        /\ Len(last.out.of) = last.args[2].batch

\* C20 amended: for every batch size and color_bits, every patch_size that
\* divides S and every embedding_dim that is a multiple of num_attention_heads,
\* the encoder maps a histogram of side S to an embedding of shape
\* (batch, (S/patch_size)^3 + 1, embedding_dim), one positional encoding per
\* token; for a patch_size that does not divide S it returns no embedding of
\* that shape.
C20_ShapeForDividingPatchSize ==
    last.op = "HistogramEncoder" =>
        LET cfg == last.args[1]
            cube_size == Pow2(cfg.color_bits)
            stated ==
                /\ last.err = "ok"
                /\ Len(last.out.shape) = 3
                /\ last.out.shape[1] = last.args[2].batch
                /\ cfg.patch_size * cfg.patch_size * cfg.patch_size * (last.out.shape[2] - 1)
                      = cube_size * cube_size * cube_size
                /\ last.out.shape[3] = cfg.embedding_dim
                /\ last.out.positions = last.out.shape[2]
                /\ Len(last.out.of) = last.args[2].batch
        IN  /\ (/\ cube_size % cfg.patch_size = 0
                /\ cfg.embedding_dim % num_attention_heads = 0) => stated
            /\ cube_size % cfg.patch_size # 0 => ~stated

\* a cube of side 4 cut into 2 x 2 x 2 patches, for a batch of two
C20_Witness ==
    /\ last.op = "HistogramEncoder"
    /\ last.args[1].color_bits = 2
    /\ last.args[1].patch_size = 2
    /\ last.args[2].batch = 2
    /\ last.err = "ok"
    /\ last.args[1].embedding_dim = 2 * num_attention_heads
    /\ last.out.shape = <<2, 9, 2 * num_attention_heads>>
    /\ last.out.positions = 9

\* C21: the HistogramDistance of any histogram with itself is exactly 0.
C21_DistanceToItselfIsZero ==
    (last.op = "HistogramDistance" /\ last.args[1] = last.args[2]) =>
        /\ last.err = "ok"
        /\ last.out.num = 0
        /\ last.out.den > 0

C21_Witness ==
    /\ last.op = "HistogramDistance"
    /\ last.args[1] = <<1, 0, 1>>
    /\ last.args[2] = <<1, 0, 1>>
    /\ last.out.num = 0

\* C22: the color loss between an all-white image batch (every channel value 1)
\* and an all-black one (every channel value 0) is exactly 1.
C22_WhiteAgainstBlackIsOne ==
    (/\ last.op = "color_loss"
     /\ last.args[1].value = 1
     /\ last.args[2].value = 0
     /\ last.args[1].batch = last.args[2].batch) =>
        /\ last.err = "ok"
        /\ last.out = 1

\* C23: compute_loss returns the noise-prediction loss plus color_loss_weight
\* times the color loss of the denoised, decoded prediction; with a weight of 0 it
\* is the noise-prediction loss alone.
C23_CompositeLoss ==
    last.op = "compute_loss" =>
        /\ last.err = "ok"
        /\ last.out.loss = last.out.loss_1 + last.args[4] * last.out.loss_2
        /\ last.args[4] = 0 => last.out.loss = last.out.loss_1

\* C24: assigning v to a HistogramCrossAttentionAdapter's scale, at any time
\* after construction and any number of times, makes the adapter's scale, its
\* branch's scale and the Multiply layer's scale equal to v, rebuilds no module and
\* leaves every tensor, the key and value projection weights included, as it was.
C24_ScaleAssignmentPropagates ==
    [][last'.op = "adapter.scale" =>
          LET n == last'.args[1] IN
          /\ adapterScale'[n] = last'.args[2]
          /\ branchScale'[n] = last'.args[2]
          /\ multiplyScale'[n] = last'.args[2]
          /\ \A m \in (1..Len(adapters)) \ {n} :
                /\ adapterScale'[m] = adapterScale[m]
                /\ branchScale'[m] = branchScale[m]
                /\ multiplyScale'[m] = multiplyScale[m]
          /\ adapters' = adapters
          /\ graph' = graph
          /\ params' = params]_vars

\* an assignment to the first of two adapters, whose weights are not zero, while
\* the branch of the second has been given a scale of its own
C24_Witness ==
    /\ last.op = "adapter.scale"
    /\ Len(adapters) >= 2
    /\ last.args = <<1, 0>>
    /\ adapterScale[1] = 0 /\ branchScale[1] = 0 /\ multiplyScale[1] = 0
    /\ multiplyScale[2] = 1
    /\ adapterScale[2] = 0
    /\ adapters[1].tensors[image_key_projection] # 0

\* C25: when training begins, LoadHistogram zero-initializes the adapter and then
\* injects it: afterwards the adapter is injected and every tensor it introduced
\* is zero.
C25_TrainingStartsInjectedAndZero ==
    last.op = "on_train_begin" =>
        /\ last.err = "ok"
        /\ built
        /\ FullyInjected(graph)
        /\ \A r \in (DOMAIN params) \ BaseRefs : params[r] = 0

\* C26: SD1ControlnetAdapter.inject raises an assertion error and leaves the
\* target's children as they were when its controlnet, or one of the same name, is
\* among them; otherwise it puts its controlnet first among the children. An eject
\* that follows removes that controlnet alone, so inject then eject restores the
\* children.
C26_ControlnetInjectEject ==
    [][/\ last'.op = "controlnet.inject" =>
             LET a == last'.args[1]
                 present == {children[n] : n \in 1..Len(children)} \ {0}
             IN  IF a \in present \/ \E c \in present : controlnets[c].name = controlnets[a].name
                 THEN last'.err = "AssertionError" /\ children' = children
                 ELSE /\ last'.err = "ok"
                      /\ children' = <<a>> \o children
       /\ (/\ last.op = "controlnet.inject"
           /\ last.err = "ok"
           /\ last'.op = "controlnet.eject"
           /\ last'.args = last.args) =>
             /\ last'.err = "ok"
             /\ children' = last.out
             /\ children' = Tail(children)]_vars

\* an eject right after the inject of a second controlnet, of another name
C26_Witness ==
    /\ last.op = "controlnet.eject"
    /\ last.err = "ok"
    /\ last.args = <<2>>
    /\ last.out = <<2, 1, 0>>
    /\ children = <<1, 0>>
    /\ controlnets[1].name # controlnets[2].name

\* C30: at all times a Controlnet's scale_decays has 13 entries, entry i being
\* scale_decay to the power 12 - i, so that the last entry is 1; assigning scale
\* leaves scale_decays as it was.
C30_ScaleDecaysFollowScaleDecay ==
    [][/\ \A a \in 1..Len(controlnets') :
             LET c == controlnets'[a] IN
             /\ Len(c.scale_decays) = 13
             /\ \A i \in 0..12 : c.scale_decays[i + 1] = Power(c.scale_decay, 12 - i)
             /\ c.scale_decays[13] = 1
       /\ last'.op = "controlnet.scale" =>
             /\ controlnets'[last'.args[1]].scale = last'.args[2]
             /\ \A a \in 1..Len(controlnets) :
                   /\ controlnets'[a].scale_decays = controlnets[a].scale_decays
                   /\ controlnets'[a].scale_decay = controlnets[a].scale_decay]_vars

\* a scale decay of 2 assigned after construction with another one
C30_Witness ==
    /\ last.op = "controlnet.scale_decay"
    /\ last.args = <<1, 2>>
    /\ controlnets[1].scale_decay = 2
    /\ controlnets[1].scale_decays[1] = 4096
    /\ controlnets[1].scale_decays[12] = 2
    /\ controlnets[1].scale_decays[13] = 1

\* the hinted attributes whose value has the hinted type
WellTyped(cls, kwargs) ==
    {n \in 1..Len(cls) : cls[n].key \in DOMAIN kwargs /\ kwargs[cls[n].key].type = cls[n].type}

\* C27: a constructed BaseBatch has exactly the hinted attributes, each non-empty
\* and of one first-dimension size, which is its len(); construction raises
\* ValueError for an unknown, a missing or an empty attribute and for a size
\* mismatch, and TypeError for a value of the wrong type.
C27_BatchConstruction ==
    last.op = "BaseBatch" =>
        LET cls == last.args[1]
            kwargs == last.args[2]
            b == last.out
            unknown == \E key \in DOMAIN kwargs : key \notin HintKeys(cls)
            missing == \E key \in HintKeys(cls) : key \notin DOMAIN kwargs
            typed == WellTyped(cls, kwargs)
            sized == \A n \in typed : kwargs[cls[n].key].rank = 1
            empty == \E n \in typed : Len(kwargs[cls[n].key].items) = 0
            mismatch == \E n, m \in typed :
                            Len(kwargs[cls[n].key].items) # Len(kwargs[cls[m].key].items)
            mistyped == \E n \in 1..Len(cls) :
                            cls[n].key \in DOMAIN kwargs /\ n \notin typed
        IN  /\ last.err = b.err
            /\ b.err = "ok" =>
                  /\ DOMAIN b.attrs = HintKeys(cls)
                  /\ b.length >= 1
                  /\ \A n \in 1..Len(cls) :
                        /\ b.attrs[cls[n].key] = kwargs[cls[n].key]
                        /\ b.attrs[cls[n].key].type = cls[n].type
                        /\ Len(b.attrs[cls[n].key].items) = b.length
            /\ (unknown \/ missing \/ empty \/ mismatch \/ mistyped) => b.err # "ok"
            /\ unknown => b.err = "ValueError"
            /\ ((missing \/ empty \/ mismatch) /\ ~mistyped /\ sized) => b.err = "ValueError"
            /\ (mistyped /\ ~unknown /\ ~missing /\ ~empty /\ ~mismatch /\ sized) =>
                  b.err = "TypeError"

\* a batch of two attributes of size 2
C27_Witness ==
    /\ last.op = "BaseBatch"
    /\ Len(last.args[1]) = 2
    /\ last.err = "ok"
    /\ last.out.length = 2
    /\ last.out.attrs["texts"].items = <<0, 1>>
    /\ last.out.attrs["latents"].items = <<1, 0>>

RECURSIVE SumOfLengths(_, _)
SumOfLengths(batch_list, n) ==
    IF n = 0 THEN 0 ELSE batch_list[n].length + SumOfLengths(batch_list, n - 1)

\* C28: b.split() returns len(b) batches of length 1, in order, whose collation
\* is equal to b; the length of a collation is the sum of the lengths of the
\* batches, whose items keep their order; collating an empty list raises ValueError.
C28_SplitCollate ==
    /\ last.op = "split" =>
          LET cls == last.args[1]
              b == BatchInit(cls, last.args[2])
              parts == last.out
              c == BatchCollate(cls, parts)
          IN  /\ Len(parts) = b.length
              /\ \A n \in 1..Len(parts) :
                    /\ parts[n].err = "ok"
                    /\ parts[n].length = 1
                    /\ \A key \in HintKeys(cls) :
                          parts[n].attrs[key].items = <<b.attrs[key].items[n]>>
              /\ c.err = "ok"
              /\ c.length = b.length
              /\ BatchEq(cls, c, b)
              /\ \A key \in HintKeys(cls) : c.attrs[key] = b.attrs[key]
    /\ last.op = "collate" =>
          LET cls == last.args[1]
              batch_list == last.args[2]
              c == last.out
          IN  IF batch_list = <<>> THEN last.err = "ValueError"
              ELSE /\ last.err = "ok"
                   /\ c.length = SumOfLengths(batch_list, Len(batch_list))
                   /\ \A key \in HintKeys(cls) :
                         /\ Len(c.attrs[key].items) = c.length
                         /\ \A n \in 1..Len(batch_list) :
                               \A j \in 1..batch_list[n].length :
                                   c.attrs[key].items[SumOfLengths(batch_list, n - 1) + j]
                                       = batch_list[n].attrs[key].items[j]

\* a split of a batch of two different items
C28_Witness ==
    /\ last.op = "split"
    /\ Len(last.args[1]) = 2
    /\ Len(last.out) = 2
    /\ last.out[1].attrs["latents"].items = <<0>>
    /\ last.out[2].attrs["latents"].items = <<1>>

\* C29: a DataLoaderConfig is accepted only if num_workers > 0 whenever
\* prefetch_factor is set or persistent_workers is true; with num_workers = 0 every
\* such combination is rejected with a validation error; DatasetFromCallable
\* rejects every length that is not greater than 0.
C29_LoaderValidation ==
    /\ last.op = "DataLoaderConfig" =>
          LET cfg == last.args[1]
              needs_workers == cfg.prefetch_factor # <<>> \/ cfg.persistent_workers
          IN  /\ last.err = "ok" => (needs_workers => cfg.num_workers > 0)
              /\ (cfg.num_workers = 0 /\ needs_workers) => last.err = "ValidationError"
              /\ last.err = "ok" <=>
                    /\ cfg.batch_size > 0
                    /\ cfg.num_workers >= 0
                    /\ cfg.prefetch_factor # <<>> => cfg.prefetch_factor[1] > 0
                    /\ needs_workers => cfg.num_workers > 0
    /\ last.op = "DatasetFromCallable" =>
          IF last.args[1] > 0 THEN last.err = "ok" /\ last.out = last.args[1]
          ELSE last.err = "AssertionError"

\* persistent workers asked for without any worker
C29_Witness ==
    /\ last.op = "DataLoaderConfig"
    /\ last.args[1].batch_size = 1
    /\ last.args[1].num_workers = 0
    /\ last.args[1].prefetch_factor = <<>>
    /\ last.args[1].persistent_workers
    /\ last.err = "ValidationError"

====
